---- MODULE Spec2Model ----
(***************************************************************************)
(* Model of the Instagram carousel publisher (postToInstagram and its      *)
(* nested attemptPublish) of src/src/services/cron.service.ts.             *)
(*                                                                         *)
(* One run of postToInstagram is a sequential process; its position is pc. *)
(* Every await (a network call, a timer) is a suspension point and so a    *)
(* step boundary.  The platform (graph.facebook.com, reached through       *)
(* axios) is the environment: it answers every call with a response or an  *)
(* error drawn from a small set.                                           *)
(*                                                                         *)
(* Strings the code only passes around are TLA+ strings.  Error messages,  *)
(* which the code concatenates and searches, are sequences of word tokens. *)
(* An image URL is a natural number standing for the URL string.           *)
(***************************************************************************)
EXTENDS Integers, Sequences, FiniteSets, TLC

VARIABLES
    accessToken,          \* process.env.FACEBOOK_ACCESS_TOKEN
    igBusinessId,         \* process.env.INSTAGRAM_BUSINESS_ACCOUNT_ID
    caption,              \* argument caption
    enhancedCaption,      \* argument enhancedCaption (optional)
    mediaUrlsArg,         \* argument mediaUrls as passed by the caller
    mediaUrls,            \* the local binding mediaUrls (reassigned by slice)
    pc,                   \* position of the run
    i,                    \* loop index of phase 1 (0-based, as in the code)
    containerIds,         \* const containerIds = []
    carouselContainerId,  \* let carouselContainerId
    retryCount,           \* attemptPublish parameter retryCount
    delayMs,              \* attemptPublish parameter delayMs
    outcome,              \* what the run returned or threw
    calls,                \* every axios.post issued, with its params, in order
    trace,                \* calls, responses and timer delays, in order
    platformNext,         \* next id the platform hands out
    platformObjects,      \* what the platform has allocated or published
    jobs,                 \* the handler invocations in flight (cron callbacks, HTTP requests)
    contentSchedule,      \* contentService.contentSchedule.schedule, in store order
    clock,                \* the instant new Date() returns, in hours
    tz,                   \* the server's time zone, as its offset from UTC in hours
    published,            \* titles of the contents whose postToInstagram run returned, in order
    cronFiredAt,          \* the instant of the latest cron callback
    scheduleMeta,         \* contentService.contentSchedule.metadata
    scheduleFile,         \* the file content-schedule.json
    archives,             \* the files week-<weekStartDate>.json of content/archives
    storeCall,            \* the latest call of the content service and what it returned
    postsLog,             \* the lines of the file logs/posts.log
    carousels,            \* the createCarousel calls of the invocations
    tempFiles,            \* the image files in the temp directory, in the order of readdirSync
    publicFiles,          \* the image files in public/uploads
    useCloudinary,        \* the three CLOUDINARY_ variables of process.env are set
    nodeEnv               \* process.env.NODE_ENV

\* the state of the server around the single run of postToInstagram
server == << jobs, contentSchedule, clock, tz, published, cronFiredAt,
            scheduleMeta, scheduleFile, archives, storeCall, postsLog >>

\* the metadata of the schedule, the files of the content service and its latest call
disk == << scheduleMeta, scheduleFile, archives, storeCall >>

\* the state of the image renderer and uploader
renderer == << carousels, tempFiles, publicFiles, useCloudinary, nodeEnv >>

vars == << server, renderer, accessToken, igBusinessId, caption, enhancedCaption, mediaUrlsArg,
           mediaUrls, pc, i, containerIds, carouselContainerId, retryCount,
           delayMs, outcome, calls, trace, platformNext, platformObjects >>

inputs == << accessToken, igBusinessId, caption, enhancedCaption, mediaUrlsArg >>

\* the variables of the single run of postToInstagram, which the handlers around it leave alone
runVars == << caption, enhancedCaption, mediaUrlsArg, mediaUrls, pc, i, containerIds,
              carouselContainerId, retryCount, delayMs, outcome, calls, trace,
              platformNext, platformObjects >>

-----------------------------------------------------------------------------
(* Bounds of the model *)

\* longest image list passed to postToInstagram
MaxUrls == 12

\* largest first id the platform hands out
MaxFirstId == 2

\* handler invocations (cron callbacks, HTTP requests) in a behaviour
MaxJobs == 2

\* most content slides of a carousel
MaxSlides == 2

\* most content slides of a carousel that goes through the whole pipeline
MaxPipelineSlides == 9

\* the images of a pipeline run that are stored on the host that stores fewer of them
MaxOtherHost == 1

\* items of the schedules the triggers find when the server starts
MaxItems == 1

\* items of the schedule files the content service is exercised with
MaxStoreItems == 2

\* the first instant of the behaviours: 2025-06-02T23:00Z
FirstInstant == 47

\* hours that pass in a behaviour
MaxTicks == 1

\* handler invocations in a behaviour in which the schedule is replaced
MaxAdminJobs == 1

-----------------------------------------------------------------------------
(* Program constants *)

\* Instagram's carousel limit
MaxCarouselItems == 10

containerDelayMs == 1000

carouselDelayMs == 2000

\* default of attemptPublish's delayMs
initialDelayMs == 5000

\* one retry too many
maxRetries_OneMore == 3 + 1

\* default of attemptPublish's maxRetries
maxRetries == 3

\* delayMs * 1.5, as the fraction 3/2
backoffNumerator == 3

backoffDenominator == 2

-----------------------------------------------------------------------------
(* JavaScript values *)

\* the value undefined, where a string is expected
Undefined == "<undefined>"

\* !x is false: x is neither undefined nor the empty string
Truthy(x) == x # Undefined /\ x # ""

\* a ?? b on strings: only undefined gives way
OrElse_Nullish(a, b) == IF a # Undefined THEN a ELSE b

\* a || b on strings
OrElse(a, b) == IF Truthy(a) THEN a ELSE b

\* the empty message
NoMessage == << >>

\* msg.includes(pattern), on messages as token sequences
Includes(msg, pattern) ==
    \E s \in 0..(Len(msg) - Len(pattern)) :
        SubSeq(msg, s + 1, s + Len(pattern)) = pattern

\* `${n}`
Str(n) == ToString(n)

-----------------------------------------------------------------------------
(* Inputs *)

\* what an environment variable can hold
EnvValues(v) == {Undefined, "", v}

\* the image list u1..un
Ascending(n) == [k \in 1..n |-> k]

\* the image list un..u1
Descending(n) == [k \in 1..n |-> n + 1 - k]

\* image lists: 0..MaxUrls distinct URLs, in either order
UrlLists == {Ascending(n) : n \in 0..MaxUrls} \cup {Descending(n) : n \in 0..MaxUrls}

-----------------------------------------------------------------------------
(* The platform's answers, as axios delivers them *)

\* a 2xx response; data is null when hasData is FALSE, data.id is id
OkResponse(hasData, id) ==
    [ok |-> TRUE, hasData |-> hasData, id |-> id,
     message |-> NoMessage, hasApiMessage |-> FALSE, apiMessage |-> NoMessage]

\* a rejected axios.post: error.message, and error.response.data.error.message
\* when the platform sent one
AxiosError(message, hasApiMessage, apiMessage) ==
    [ok |-> FALSE, hasData |-> FALSE, id |-> Undefined,
     message |-> message, hasApiMessage |-> hasApiMessage, apiMessage |-> apiMessage]

\* new Error(message)
PlainError(message) == AxiosError(message, FALSE, NoMessage)

StatusCodeMessage(code) == << "Request", "failed", "with", "status", "code", code >>

\* the errors a call can end with
PlatformErrors ==
    { AxiosError(StatusCodeMessage("500"), TRUE, << "An", "unknown", "error", "has", "occurred" >>),
      AxiosError(StatusCodeMessage("400"), TRUE, << "Invalid", "parameter" >>),
      AxiosError(StatusCodeMessage("500"), TRUE, << "Unknown", "error" >>),
      AxiosError(StatusCodeMessage("502"), TRUE, NoMessage),
      AxiosError(<< "Network", "Error" >>, FALSE, NoMessage),
      AxiosError(<< "socket", "closed", "unknown", "error" >>, FALSE, NoMessage) }

\* the 2xx responses to a call when the platform's next id is n
OkResponses(n) ==
    { OkResponse(TRUE, Str(n)), OkResponse(TRUE, ""), OkResponse(TRUE, Undefined),
      OkResponse(FALSE, Undefined) }

Responses(n) == OkResponses(n) \cup PlatformErrors

\* response.data?.id
DataId(resp) == IF resp.hasData THEN resp.id ELSE Undefined

\* response.data is all that is looked at: an id that is missing or empty passes
MissingId_DataOnly(resp) == ~resp.hasData

\* !response.data || !response.data.id
MissingId(resp) == ~resp.hasData \/ ~Truthy(resp.id)

\* error.response?.data?.error?.message || error.message
ErrorText(err) ==
    IF err.hasApiMessage /\ err.apiMessage # NoMessage THEN err.apiMessage ELSE err.message

-----------------------------------------------------------------------------
(* Pure parts of postToInstagram *)

\* !accessToken || !igBusinessId, with the bug of requiring both to be missing
CredentialsMissing_Both(token, account) == ~Truthy(token) /\ ~Truthy(account)

\* !accessToken || !igBusinessId
CredentialsMissing(token, account) == ~Truthy(token) \/ ~Truthy(account)

\* the emptiness check skipped
NoMediaUrls_Never(urls) == FALSE

\* !mediaUrls || mediaUrls.length === 0
NoMediaUrls(urls) == Len(urls) = 0

\* the truncation left out
Truncate_Not(urls) == urls

\* if (mediaUrls.length > 10) mediaUrls = mediaUrls.slice(0, 10)
Truncate(urls) ==
    IF Len(urls) > MaxCarouselItems THEN SubSeq(urls, 1, MaxCarouselItems) ELSE urls

\* containerIds.push(id) replaced by unshift
Push_Front(ids, id) == << id >> \o ids

\* containerIds.push(id)
Push(ids, id) == Append(ids, id)

RECURSIVE Join(_)
\* containerIds.join(',')
Join(ids) ==
    IF Len(ids) = 0 THEN << >>
    ELSE IF Len(ids) = 1 THEN << ids[1] >>
    ELSE << ids[1], "," >> \o Join(Tail(ids))

\* the constant delay: no backoff
NextDelay_Constant(ms) == ms

\* the delay doubles
NextDelay_Double(ms) == ms * 2

\* delayMs * 1.5
NextDelay(ms) == (ms * backoffNumerator) \div backoffDenominator

\* every error is retried
IsUnknownError_Always(err) == TRUE

\* error.response?.data?.error?.message?.includes('unknown error') ||
\* error.message?.includes('unknown error')
IsUnknownError(err) ==
    \/ err.hasApiMessage /\ Includes(err.apiMessage, << "unknown", "error" >>)
    \/ Includes(err.message, << "unknown", "error" >>)

\* the retry bound off by one
ShouldRetry_OffByOne(count, err) == count <= maxRetries /\ IsUnknownError(err)

\* retryCount < maxRetries && isUnknownError
ShouldRetry(count, err) == count < maxRetries /\ IsUnknownError(err)

\* the index of the call is reported 0-based
ContainerError_ZeroBased(index, err) ==
    PlainError(<< "Failed", "to", "create", "container", Str(index), ":" >> \o ErrorText(err))

\* new Error(`Failed to create container ${i+1}: ${...}`)
ContainerError(index, err) ==
    PlainError(<< "Failed", "to", "create", "container", Str(index + 1), ":" >> \o ErrorText(err))

\* new Error(`Failed to create media container for URL: ${url}`)
MissingContainerError(url) ==
    PlainError(<< "Failed", "to", "create", "media", "container", "for", "URL:", Str(url) >>)

\* new Error(`Failed to create carousel container: ${...}`)
CarouselError(err) ==
    PlainError(<< "Failed", "to", "create", "carousel", "container:" >> \o ErrorText(err))

\* new Error('Failed to create carousel container')
MissingCarouselError == PlainError(<< "Failed", "to", "create", "carousel", "container" >>)

\* new Error(`Failed to publish carousel after multiple attempts: ${...}`)
PublishError(err) ==
    PlainError(<< "Failed", "to", "publish", "carousel", "after", "multiple", "attempts:" >>
               \o ErrorText(err))

\* new Error('Missing Instagram credentials in environment variables')
CredentialsError ==
    PlainError(<< "Missing", "Instagram", "credentials", "in", "environment", "variables" >>)

\* new Error('No media URLs provided for Instagram post')
NoMediaError ==
    PlainError(<< "No", "media", "URLs", "provided", "for", "Instagram", "post" >>)

\* new Error('Failed to create any media containers')
NoContainersError ==
    PlainError(<< "Failed", "to", "create", "any", "media", "containers" >>)

-----------------------------------------------------------------------------
(* The calls postToInstagram sends *)

\* axios.post(`.../${igBusinessId}/media`, null, {params: {image_url, is_carousel_item,
\* access_token}})
ItemCall(url) ==
    [phase |-> 1, endpoint |-> "media", account |-> igBusinessId,
     access_token |-> accessToken, image_url |-> url, is_carousel_item |-> TRUE,
     media_type |-> Undefined, children |-> << >>, caption |-> Undefined,
     creation_id |-> Undefined]

\* axios.post(`.../${igBusinessId}/media`, null, {params: {media_type, children, caption,
\* access_token}})
CarouselCall ==
    [phase |-> 2, endpoint |-> "media", account |-> igBusinessId,
     access_token |-> accessToken, image_url |-> 0, is_carousel_item |-> FALSE,
     media_type |-> "CAROUSEL", children |-> Join(containerIds),
     caption |-> OrElse(enhancedCaption, caption), creation_id |-> Undefined]

\* the publish call names the first item container instead of the carousel container
PublishCall_ItemContainer ==
    [phase |-> 3, endpoint |-> "media_publish", account |-> igBusinessId,
     access_token |-> accessToken, image_url |-> 0, is_carousel_item |-> FALSE,
     media_type |-> Undefined, children |-> << >>, caption |-> Undefined,
     creation_id |-> containerIds[1]]

\* axios.post(`.../${igBusinessId}/media_publish`, null, {params: {creation_id,
\* access_token}})
PublishCall ==
    [phase |-> 3, endpoint |-> "media_publish", account |-> igBusinessId,
     access_token |-> accessToken, image_url |-> 0, is_carousel_item |-> FALSE,
     media_type |-> Undefined, children |-> << >>, caption |-> Undefined,
     creation_id |-> carouselContainerId]

\* the filler of the events that carry no response
NoResponse == OkResponse(FALSE, Undefined)

\* an axios.post was sent
CallEvent(phase) == [type |-> "call", phase |-> phase, ms |-> 0, resp |-> NoResponse]

\* an axios.post resolved or rejected with resp
ResponseEvent(phase, resp) == [type |-> "response", phase |-> phase, ms |-> 0, resp |-> resp]

\* await new Promise(resolve => setTimeout(resolve, ms))
DelayEvent(phase, ms) == [type |-> "delay", phase |-> phase, ms |-> ms, resp |-> NoResponse]

\* a failed call releases what the run has allocated so far
PlatformAfter_Rollback(call, resp) ==
    IF resp.ok /\ ~MissingId(resp)
    THEN Append(platformObjects,
                [id |-> resp.id, phase |-> call.phase, image_url |-> call.image_url,
                 children |-> call.children, creation_id |-> call.creation_id])
    ELSE << >>

\* what the platform holds after answering call with resp
PlatformAfter(call, resp) ==
    IF resp.ok /\ ~MissingId(resp)
    THEN Append(platformObjects,
                [id |-> resp.id, phase |-> call.phase, image_url |-> call.image_url,
                 children |-> call.children, creation_id |-> call.creation_id])
    ELSE platformObjects

\* the platform's next id after answering with resp
NextIdAfter(resp) == IF resp.ok /\ ~MissingId(resp) THEN platformNext + 1 ELSE platformNext

\* the run ends by throwing err (the outermost catch logs it and throws it again)
Throw(err) ==
    /\ outcome' = [kind |-> "throw", message |-> err.message, success |-> FALSE,
                   postId |-> Undefined, containerIds |-> << >>,
                   carouselContainerId |-> Undefined]
    /\ pc' = "done"

\* the result carries the carousel container id as its post id
Return_CarouselIdAsPostId(postId) ==
    /\ outcome' = [kind |-> "return", message |-> NoMessage, success |-> TRUE,
                   postId |-> carouselContainerId, containerIds |-> containerIds,
                   carouselContainerId |-> carouselContainerId]
    /\ pc' = "done"

\* the run ends by returning {success: true, postId, containerIds, carouselContainerId}
Return(postId) ==
    /\ outcome' = [kind |-> "return", message |-> NoMessage, success |-> TRUE,
                   postId |-> postId, containerIds |-> containerIds,
                   carouselContainerId |-> carouselContainerId]
    /\ pc' = "done"

NoOutcome ==
    [kind |-> "none", message |-> NoMessage, success |-> FALSE, postId |-> Undefined,
     containerIds |-> << >>, carouselContainerId |-> Undefined]

-----------------------------------------------------------------------------
(* The content schedule store (content.service.ts) *)

\* null, where a ScheduledPost is expected
Null == [null |-> TRUE]

\* null, where a string is expected
NullString == "<null>"

\* hours in a day
HoursPerDay == 24

\* n.toString().padStart(2, '0')
PadStart2(n) == IF n < 10 THEN "0" \o ToString(n) ELSE ToString(n)

\* the day of the month of an instant in the time zone of offset zone; the instants of
\* the model lie in June 2025 and are counted in hours from 2025-06-01T00:00Z
DayOf(instant, zone) == 1 + ((instant + zone) \div HoursPerDay)

\* the hour of the day of an instant in the time zone of offset zone
HourOf(instant, zone) == (instant + zone) % HoursPerDay

\* the date YYYY-MM-DD of a day of June 2025
IsoDate(day) == "2025-06-" \o PadStart2(day)

\* now.toISOString().split('T')[0]: the date in UTC
CurrentDate(now) == IsoDate(DayOf(now, 0))

\* now.getHours().toString().padStart(2, '0'): the hour in the server's time zone
CurrentHour(now, zone) == PadStart2(HourOf(now, zone))

\* post.time.split(':')[0]; a time HH:MM:SS is the sequence of its parts
PostHour(time) == time[1]

\* the filter of getCurrentTimePost without its status test
IsCurrent_AnyStatus(post, now, zone) ==
    /\ post.date = CurrentDate(now)
    /\ PostHour(post.time) = CurrentHour(now, zone)

\* the filter of getCurrentTimePost
IsCurrent(post, now, zone) ==
    /\ post.status = "scheduled"
    /\ post.date = CurrentDate(now)
    /\ PostHour(post.time) = CurrentHour(now, zone)

\* this.contentSchedule is null: no schedule is loaded
NoSchedule == << Null >>

\* contentService.getCurrentTimePost() at the instant now
GetCurrentTimePost(schedule, now, zone) ==
    IF schedule = NoSchedule THEN Null
    ELSE LET currentPosts == SelectSeq(schedule, LAMBDA post : IsCurrent(post, now, zone))
         IN  IF Len(currentPosts) > 0 THEN currentPosts[1] ELSE Null

\* currentPost?.id
OptionalId(post) == IF post = Null THEN Undefined ELSE post.id

\* schedule.findLastIndex(post => post.id === postId), 1-based; 0 when there is none
FindIndex_Last(schedule, postId) ==
    IF \E k \in 1..Len(schedule) : schedule[k].id = postId
    THEN CHOOSE k \in 1..Len(schedule) :
            /\ schedule[k].id = postId
            /\ \A m \in (k + 1)..Len(schedule) : schedule[m].id # postId
    ELSE 0

\* schedule.findIndex(post => post.id === postId), 1-based; 0 when there is none
FindIndex(schedule, postId) ==
    IF \E k \in 1..Len(schedule) : schedule[k].id = postId
    THEN CHOOSE k \in 1..Len(schedule) :
            /\ schedule[k].id = postId
            /\ \A m \in 1..(k - 1) : schedule[m].id # postId
    ELSE 0

\* contentService.markPostAsPublished(postId): what it returns.  False when no schedule
\* is loaded or no item has the id
MarkPostAsPublishedReturns(schedule, postId) ==
    IF schedule = NoSchedule THEN FALSE
    ELSE FindIndex(schedule, postId) # 0

\* contentService.markPostAsPublished(postId): the schedule it leaves
MarkPostAsPublished(schedule, postId) ==
    IF ~MarkPostAsPublishedReturns(schedule, postId) THEN schedule
    ELSE [schedule EXCEPT ![FindIndex(schedule, postId)].status = "published"]

\* metadata of a schedule: weekStartDate, and updatedAt as an instant
Metadata(weekStartDate, updatedAt) == [weekStartDate |-> weekStartDate, updatedAt |-> updatedAt]

\* a ContentSchedule: {metadata, schedule}
ContentSchedule(metadata, schedule) == [metadata |-> metadata, schedule |-> schedule]

\* JSON.stringify(this.contentSchedule, null, 2) written to a file
Written(metadata, schedule) ==
    [exists |-> TRUE, metadata |-> metadata, schedule |-> schedule]

\* a file that exists and holds no schedule: text that JSON.parse rejects (empty, cut
\* off), or JSON without a schedule array ({} or null)
Unparsable == [exists |-> TRUE, metadata |-> Metadata(Undefined, 0), schedule |-> << >>]

\* how fs.writeFileSync(path, text) can end: the text is written; or the file is opened,
\* which empties it, and the writing throws; or the opening throws
WriteOutcomes == {"written", "cut off", "not opened"}

\* the file that fs.writeFileSync(path, text) leaves where file was
WriteFileSync(file, text, ended) ==
    IF ended = "written" THEN text
    ELSE IF ended = "cut off" THEN Unparsable
    ELSE file

\* a file that does not exist
NoFile == [exists |-> FALSE, metadata |-> Metadata(Undefined, 0), schedule |-> << >>]

\* the week of the schedules the server starts with
FirstWeek == "2025-06-02"

\* no call of the content service yet
NoStoreCall ==
    [op |-> "none", postId |-> Undefined, returned |-> FALSE, post |-> Null,
     newSchedule |-> ContentSchedule(Metadata(Undefined, 0), << >>)]

\* the call op(postId) returned the boolean returned
BooleanCall(op, postId, returned) ==
    [NoStoreCall EXCEPT !.op = op, !.postId = postId, !.returned = returned]

\* saveContentSchedule() of the schedule that is now in memory, with the metadata it has:
\* updatedAt is set, then fs.writeFileSync writes the file or throws, which is logged only
SaveContentSchedule(schedule, metadata, ended) ==
    /\ scheduleMeta' = [metadata EXCEPT !.updatedAt = clock]
    /\ scheduleFile' = WriteFileSync(scheduleFile, Written(scheduleMeta', schedule), ended)

\* contentService.markPostAsPublished(postId): the first item with that id is marked and
\* the schedule saved, and true is returned; false when no item has that id
MarkAndSave(postId) ==
    /\ contentSchedule' = MarkPostAsPublished(contentSchedule, postId)
    /\ storeCall' = BooleanCall("markPostAsPublished", postId,
                                MarkPostAsPublishedReturns(contentSchedule, postId))
    /\ IF MarkPostAsPublishedReturns(contentSchedule, postId)
       THEN \E ended \in WriteOutcomes :
               SaveContentSchedule(contentSchedule', scheduleMeta, ended)
       ELSE UNCHANGED << scheduleMeta, scheduleFile >>
    /\ UNCHANGED archives

\* the instants of a behaviour
Instants == FirstInstant..(FirstInstant + MaxTicks)

\* the constructor found content-schedule.json and loaded schedule from it
LoadedStore(schedule) ==
    /\ contentSchedule = schedule
    /\ scheduleMeta = Metadata(FirstWeek, FirstInstant - 1)
    /\ scheduleFile = Written(scheduleMeta, contentSchedule)
    /\ archives = {}
    /\ storeCall = NoStoreCall

\* the constructor found no content-schedule.json: it made the default empty schedule of
\* the week that starts today and saved it, or failed to.  loadContentSchedule takes
\* new Date() for weekStartDate and saveContentSchedule takes it again for updatedAt: the
\* hour can change between the two, and the clock is at the second
DefaultStore ==
    /\ clock \in {FirstInstant, FirstInstant + 1} \cap Instants
    /\ contentSchedule = << >>
    /\ scheduleMeta = Metadata(CurrentDate(FirstInstant), clock)
    /\ scheduleFile \in {WriteFileSync(NoFile, Written(scheduleMeta, contentSchedule), ended) :
                            ended \in WriteOutcomes}
    /\ archives = {}
    /\ storeCall = NoStoreCall

\* the constructor found a content-schedule.json it could not load: the catch branch
\* made the default empty schedule in memory and saved nothing, so the file is as it was
UnloadedStore ==
    /\ contentSchedule = << >>
    /\ scheduleMeta = Metadata(CurrentDate(FirstInstant), FirstInstant)
    /\ scheduleFile = Unparsable
    /\ archives = {}
    /\ storeCall = NoStoreCall

\* the content of the schedule item id
ItemContent(id) == [title |-> "Title of " \o id, slides |-> 1]

\* getNutritionMythsContent()
NutritionMythsContent == [title |-> "10 Nutrition Myths You Still Believe", slides |-> 7]

\* a req.body of POST /post-carousel: slides is undefined, a value that is not an array
\* (an object with a length), or an array
RequestBody(title, kind, length) == [title |-> title, slides |-> [kind |-> kind, length |-> length]]

\* the bodies of the requests: a title and one slide, and the bodies that lack one thing
RequestBodies ==
    { RequestBody("Title of the request", "array", 1),
      RequestBody(Undefined, "array", 1),
      RequestBody("", "array", 1),
      RequestBody("Title of the request", "undefined", 0),
      RequestBody("Title of the request", "object", 1),
      RequestBody("Title of the request", "array", 0) }

\* no request body: the invocation is not a POST /post-carousel request
NoBody == RequestBody(Undefined, "undefined", 0)

\* the body passes when slides is an array, whatever its length
InvalidBody_AnyArray(body) ==
    \/ ~Truthy(body.title)
    \/ body.slides.kind # "array"

\* !title || !slides || !Array.isArray(slides) || slides.length === 0
InvalidBody(body) ==
    \/ ~Truthy(body.title)
    \/ body.slides.kind = "undefined"
    \/ body.slides.kind # "array"
    \/ body.slides.length = 0

\* the title and slides that createCarouselPost passes on
BodyContent(body) == [title |-> body.title, slides |-> body.slides.length]

\* no content yet
NoContent == [title |-> Undefined, slides |-> 0]

-----------------------------------------------------------------------------
(* Handler invocations *)

\* the invocations of a behaviour
Jobs == 1..MaxJobs

\* the three cron.schedule callbacks
CronTriggers == {"cron 0 14 * * *", "cron 0 17 * * *", "cron 0 0 * * *"}

\* the hour field of a cron expression
CronHour(t) ==
    IF t = "cron 0 14 * * *" THEN 14 ELSE IF t = "cron 0 17 * * *" THEN 17 ELSE 0

\* node-cron runs the callback of t at minute 0 of its hour, in the server's time zone
CronDue(t) == HourOf(clock, tz) = CronHour(t) /\ cronFiredAt # clock

\* the routes that run scheduledPostJob
JobRoutes == {"POST /trigger-scheduled", "GET /test-job"}

\* the route that runs createCarouselPost
CarouselRoute == "POST /post-carousel"

\* no invocation
IdleJob ==
    [trigger |-> "none", pc |-> "idle", phase |-> 0, status |-> 0, body |-> NoBody,
     postContent |-> NoContent, postId |-> Undefined, scheduledPostId |-> Undefined]

\* the invocation has come to await createCarousel(postContent...); postId is
\* currentPost?.id
RenderingJob(t, postContent, postId) ==
    [trigger |-> t, pc |-> "rendering", phase |-> 0, status |-> 0, body |-> NoBody,
     postContent |-> postContent, postId |-> postId, scheduledPostId |-> Undefined]

\* the invocation awaits postToInstagram, whose call of phase p is outstanding
PublishingJob(job, p) == [job EXCEPT !.pc = "publishing", !.phase = p]

\* the invocation has ended: an HTTP handler has answered with status, a cron callback
\* (status 0) has logged the outcome; scheduledPostId is the one of the result
FinishedJob(job, status, scheduledPostId) ==
    [job EXCEPT !.pc = "finished", !.phase = 0,
                !.status = IF job.trigger \in CronTriggers THEN 0 ELSE status,
                !.scheduledPostId = scheduledPostId]

-----------------------------------------------------------------------------
(* The image renderer and uploader (carousel.service.ts) *)

\* the CTA image is made first and the cover last
ImageNames_CtaFirst(n) ==
    << "cta" >> \o [k \in 1..n |-> "slide_" \o ToString(k)] \o << "cover" >>

\* the images createCarousel makes of n content slides, in the order it makes them:
\* the cover, the content slides 1..n, the CTA
ImageNames(n) == << "cover" >> \o [k \in 1..n |-> "slide_" \o ToString(k)] \o << "cta" >>

\* path.join(tempDir, `carousel_${Date.now()}_${name}.png`): the file of an image of
\* the createCarousel call of invocation j.  Images are drawn at different milliseconds,
\* so that the names of the files sort in the order in which the files are made
TempFile(j, name) == [run |-> j, image |-> name]

\* result.secure_url of cloudinary.uploader.upload(imagePath)
CloudinaryUrl(file) == [host |-> "res.cloudinary.com", file |-> file]

\* `${baseUrl}/uploads/${fileName}`, with fileName = path.basename(imagePath)
LocalUrl(file) == [host |-> "APP_BASE_URL", file |-> file]

\* no createCarousel call
IdleCarousel ==
    [pc |-> "idle", slides |-> 0, image |-> 0, imageUrls |-> << >>, log |-> << >>,
     outcome |-> "none", result |-> << >>]

\* no createCarousel call is in progress, and the directories are empty
RendererIdle ==
    /\ carousels = [j \in Jobs |-> IdleCarousel]
    /\ tempFiles = << >>
    /\ publicFiles = {}
    /\ useCloudinary = FALSE
    /\ nodeEnv = "production"

\* the call of invocation j is between two awaits of an I/O operation: it runs on
MayRun(j) ==
    \A other \in Jobs \ {j} :
       carousels[other].pc \notin {"render", "store", "local", "cleanup"}

\* the files that are in the temp directory
InTemp == {tempFiles[k] : k \in 1..Len(tempFiles)}

\* cleanupTempFiles(tempDir) on a directory that holds files: the entries are taken in
\* the order of readdirSync (sorted by name) and every carousel_ file is removed, until
\* statSync or unlinkSync throws on an entry or readdirSync itself throws; the catch logs
\* the error, and the files that were not reached stay.  The directories it can leave
CleanupTempFiles(files) == {SubSeq(files, k, Len(files)) : k \in 1..(Len(files) + 1)}

\* the file of the image the call of invocation j is working on
CurrentFile(j) == TempFile(j, ImageNames(carousels[j].slides)[carousels[j].image])

\* what the uploader did for an image
UploadEvent(run, event) == [image |-> run.image, event |-> event]

\* the catch of createCarousel: throw new Error(`Failed to create carousel: ...`)
CarouselThrows(run, event) ==
    [run EXCEPT !.pc = "done", !.outcome = "throw",
                !.log = Append(run.log, UploadEvent(run, event))]

\* imageUrls.push(await uploadToCloudinaryOrLocal(path)), and on to the next image or,
\* after the CTA image, to the cleanup
Stored(run, event, url) ==
    [run EXCEPT !.imageUrls = Append(@, url),
                !.log = Append(@, UploadEvent(run, event)),
                !.image = IF run.image < run.slides + 2 THEN @ + 1 ELSE @,
                !.pc = IF run.image < run.slides + 2 THEN "render" ELSE "cleanup"]

\* createCarousel(title, slides, cta) is called with 0..MaxSlides content slides; the calls
\* are numbered in the order in which they are made
CallCreateCarousel(j) ==
    /\ carousels[j].pc = "idle"
    /\ \A k \in 1..(j - 1) : carousels[k].pc # "idle"
    /\ MayRun(j)
    /\ \E n \in 0..MaxSlides :
          carousels' = [carousels EXCEPT ![j] =
                           [IdleCarousel EXCEPT !.pc = "render", !.slides = n, !.image = 1]]
    /\ UNCHANGED << tempFiles, publicFiles, useCloudinary, nodeEnv >>
    /\ UNCHANGED << accessToken, igBusinessId, runVars, server >>

\* await createCoverSlide / createContentSlide / createCtaSlide: the image is drawn and
\* written to its file, or the drawing or the writing throws; a writing that throws after
\* it opened the file leaves the file there, cut off
CreateSlide(j) ==
    /\ carousels[j].pc = "render"
    /\ MayRun(j)
    /\ \/ /\ tempFiles' = Append(tempFiles, CurrentFile(j))
          /\ carousels' = [carousels EXCEPT ![j].pc = "store"]
       \/ /\ carousels' = [carousels EXCEPT ![j] = CarouselThrows(@, "render failed")]
          /\ tempFiles' \in {tempFiles, Append(tempFiles, CurrentFile(j))}
    /\ UNCHANGED << publicFiles, useCloudinary, nodeEnv >>
    /\ UNCHANGED << accessToken, igBusinessId, runVars, server >>

\* the local copy is tried first, also when Cloudinary is configured
UploadToCloudinaryOrLocal_LocalFirst(j) ==
    /\ carousels[j].pc = "store"
    /\ MayRun(j)
    /\ carousels' = [carousels EXCEPT ![j].pc = "local"]
    /\ UNCHANGED << tempFiles, publicFiles, useCloudinary, nodeEnv >>
    /\ UNCHANGED << accessToken, igBusinessId, runVars, server >>

\* uploadToCloudinaryOrLocal(imagePath): with Cloudinary configured the upload is
\* started and awaited, otherwise the local copy is next
UploadToCloudinaryOrLocal(j) ==
    /\ carousels[j].pc = "store"
    /\ MayRun(j)
    /\ carousels' = [carousels EXCEPT ![j] =
                        IF useCloudinary
                        THEN [@ EXCEPT !.pc = "uploading",
                                       !.log = Append(@, UploadEvent(carousels[j], "upload"))]
                        ELSE [@ EXCEPT !.pc = "local"]]
    /\ UNCHANGED << tempFiles, publicFiles, useCloudinary, nodeEnv >>
    /\ UNCHANGED << accessToken, igBusinessId, runVars, server >>

\* await cloudinary.uploader.upload settles: with secure_url, which is returned, or with
\* an error, which is logged before the local copy
CloudinarySettles(j) ==
    /\ carousels[j].pc = "uploading"
    /\ MayRun(j)
    /\ \/ carousels' = [carousels EXCEPT ![j] =
                           Stored(@, "uploaded", CloudinaryUrl(CurrentFile(j)))]
       \/ carousels' = [carousels EXCEPT ![j] =
                           [@ EXCEPT !.pc = "local",
                                     !.log = Append(@, UploadEvent(carousels[j],
                                                                   "upload failed"))]]
    /\ UNCHANGED << tempFiles, publicFiles, useCloudinary, nodeEnv >>
    /\ UNCHANGED << accessToken, igBusinessId, runVars, server >>

\* the local storage fallback: fs.copyFileSync(imagePath, publicPath) and the local URL,
\* or the error of the copy (always, when the image file is gone)
LocalStore(j) ==
    /\ carousels[j].pc = "local"
    /\ MayRun(j)
    /\ \/ /\ CurrentFile(j) \in InTemp
          /\ publicFiles' = publicFiles \cup {CurrentFile(j)}
          /\ carousels' = [carousels EXCEPT ![j] =
                              Stored(@, "copied", LocalUrl(CurrentFile(j)))]
       \/ /\ carousels' = [carousels EXCEPT ![j] = CarouselThrows(@, "copy failed")]
          /\ UNCHANGED publicFiles
    /\ UNCHANGED << tempFiles, useCloudinary, nodeEnv >>
    /\ UNCHANGED << accessToken, igBusinessId, runVars, server >>

\* cleanupTempFiles(tempDir) unless NODE_ENV is 'development': the carousel_ files of
\* the temp directory are removed, all of them unless the cleanup throws, which is only
\* logged; then return imageUrls
CleanupAndReturn(j) ==
    /\ carousels[j].pc = "cleanup"
    /\ MayRun(j)
    /\ tempFiles' \in IF nodeEnv # "development" THEN CleanupTempFiles(tempFiles)
                      ELSE {tempFiles}
    /\ carousels' = [carousels EXCEPT ![j] =
                        [@ EXCEPT !.pc = "done", !.outcome = "return",
                                  !.result = carousels[j].imageUrls]]
    /\ UNCHANGED << publicFiles, useCloudinary, nodeEnv >>
    /\ UNCHANGED << accessToken, igBusinessId, runVars, server >>

\* where the uploader stores the images
Hosts == {"res.cloudinary.com", "APP_BASE_URL"}

\* m images stored locally
Local(m) == [k \in 1..m |-> "APP_BASE_URL"]

\* what uploadToCloudinaryOrLocal does for an image that it stores on host: with
\* Cloudinary configured an upload that succeeds, or one that fails before the local
\* copy; without, the local copy
UploaderEvents(host, configured) ==
    IF ~configured THEN << "copied" >>
    ELSE IF host = "res.cloudinary.com" THEN << "upload", "uploaded" >>
    ELSE << "upload", "upload failed", "copied" >>

\* what the uploader logs for the first m images of a call that stores image k on
\* hosts[k]
RECURSIVE StoredLog(_, _, _)
StoredLog(hosts, configured, m) ==
    IF m = 0 THEN << >>
    ELSE StoredLog(hosts, configured, m - 1)
            \o [e \in 1..Len(UploaderEvents(hosts[m], configured)) |->
                   [image |-> m, event |-> UploaderEvents(hosts[m], configured)[e]]]

\* the URLs of the first m images of the call of invocation j for n content slides,
\* image k stored on hosts[k]
StoredUrls(j, n, hosts, m) ==
    [k \in 1..m |-> [host |-> hosts[k], file |-> TempFile(j, ImageNames(n)[k])]]

\* the files of the first m images of the call of invocation j for n content slides, in
\* the order in which they are made
ImageFiles(j, n, m) == [k \in 1..m |-> TempFile(j, ImageNames(n)[k])]

\* the same files, copied to public/uploads
CopiedFiles(j, n, m) == {TempFile(j, ImageNames(n)[k]) : k \in 1..m}

\* the call of invocation j for n content slides has stored image k on hosts[k], for
\* every image, cleaned up and returned imageUrls
ReturnedCarousel(j, n, hosts, configured) ==
    [pc |-> "done", slides |-> n, image |-> n + 2,
     imageUrls |-> StoredUrls(j, n, hosts, n + 2),
     log |-> StoredLog(hosts, configured, n + 2),
     outcome |-> "return", result |-> StoredUrls(j, n, hosts, n + 2)]

\* without Cloudinary, the call of invocation j for n content slides has copied the
\* images before image k and thrown at image k: event tells whether the drawing or the
\* copy failed
ThrownCarousel(j, n, k, event) ==
    [pc |-> "done", slides |-> n, image |-> k,
     imageUrls |-> StoredUrls(j, n, Local(k - 1), k - 1),
     log |-> Append(StoredLog(Local(k - 1), FALSE, k - 1), [image |-> k, event |-> event]),
     outcome |-> "throw", result |-> << >>]

\* createCarousel(title, slides, cta) with n content slides, called by invocation j when
\* Cloudinary is not configured.  No await of the call waits for I/O (the slide functions
\* and the local copy are synchronous), so the call runs to its end before any other
\* handler runs: every image is drawn into the temp directory and copied to
\* public/uploads, the temp directory is cleaned unless NODE_ENV is 'development', and
\* the URLs are returned; or the drawing or the copy of image k throws, and the files
\* made so far stay where they are, with the cut-off file of image k when it was the
\* writing of the file that threw
CreateCarouselLocally(j, n) ==
    /\ \/ /\ carousels' = [carousels EXCEPT ![j] = ReturnedCarousel(j, n, Local(n + 2), FALSE)]
          /\ publicFiles' = publicFiles \cup CopiedFiles(j, n, n + 2)
          /\ tempFiles' \in IF nodeEnv # "development"
                            THEN CleanupTempFiles(tempFiles \o ImageFiles(j, n, n + 2))
                            ELSE {tempFiles \o ImageFiles(j, n, n + 2)}
       \/ \E k \in 1..(n + 2) :
             \/ /\ carousels' = [carousels EXCEPT ![j] =
                                    ThrownCarousel(j, n, k, "render failed")]
                /\ publicFiles' = publicFiles \cup CopiedFiles(j, n, k - 1)
                /\ tempFiles' \in {tempFiles \o ImageFiles(j, n, k - 1),
                                  tempFiles \o ImageFiles(j, n, k)}
             \/ /\ carousels' = [carousels EXCEPT ![j] =
                                    ThrownCarousel(j, n, k, "copy failed")]
                /\ publicFiles' = publicFiles \cup CopiedFiles(j, n, k - 1)
                /\ tempFiles' = tempFiles \o ImageFiles(j, n, k)
    /\ UNCHANGED << useCloudinary, nodeEnv >>

CarouselInit ==
    /\ accessToken = "EAAG-token"
    /\ igBusinessId = "17841400000"
    /\ caption = "Title"
    /\ enhancedCaption = Undefined
    /\ mediaUrlsArg = << >>
    /\ mediaUrls = << >>
    /\ pc = "credentials"
    /\ i = 0
    /\ containerIds = << >>
    /\ carouselContainerId = Undefined
    /\ retryCount = 0
    /\ delayMs = initialDelayMs
    /\ outcome = NoOutcome
    /\ calls = << >>
    /\ trace = << >>
    /\ platformNext = 1
    /\ platformObjects = << >>
    /\ jobs = [j \in Jobs |-> IdleJob]
    /\ LoadedStore(<< >>)
    /\ clock = FirstInstant
    /\ tz = 0
    /\ published = << >>
    /\ cronFiredAt = FirstInstant - 1
    /\ postsLog = << >>
    /\ carousels = [j \in Jobs |-> IdleCarousel]
    /\ tempFiles = << >>
    /\ publicFiles = {}
    /\ useCloudinary \in BOOLEAN
    /\ nodeEnv \in {"production", "development"}

CarouselNext ==
    \E j \in Jobs :
       \/ CallCreateCarousel(j)
       \/ CreateSlide(j)
       \/ UploadToCloudinaryOrLocal(j)
       \/ CloudinarySettles(j)
       \/ LocalStore(j)
       \/ CleanupAndReturn(j)

CarouselSpec == CarouselInit /\ [][CarouselNext]_vars

-----------------------------------------------------------------------------
(* The run *)

Init ==
    /\ accessToken \in EnvValues("EAAG-token")
    /\ igBusinessId \in EnvValues("17841400000")
    /\ caption = "Title"
    /\ enhancedCaption \in {Undefined, "", "Enhanced caption"}
    /\ mediaUrlsArg \in UrlLists
    /\ mediaUrls = mediaUrlsArg
    /\ pc = "credentials"
    /\ i = 0
    /\ containerIds = << >>
    /\ carouselContainerId = Undefined
    /\ retryCount = 0
    /\ delayMs = initialDelayMs
    /\ outcome = NoOutcome
    /\ calls = << >>
    /\ trace = << >>
    /\ platformNext \in 1..MaxFirstId
    /\ platformObjects = << >>
    /\ jobs = [j \in Jobs |-> IdleJob]
    /\ LoadedStore(<< >>)
    /\ clock = FirstInstant
    /\ tz = 0
    /\ published = << >>
    /\ cronFiredAt = FirstInstant - 1
    /\ postsLog = << >>
    /\ RendererIdle

\* the image list is checked before the credentials
CheckCredentials_ListFirst ==
    /\ pc = "credentials"
    /\ IF NoMediaUrls(mediaUrls)
       THEN Throw(NoMediaError)
       ELSE IF CredentialsMissing(accessToken, igBusinessId)
            THEN Throw(CredentialsError)
            ELSE pc' = "validate" /\ UNCHANGED outcome
    /\ UNCHANGED << server, renderer, inputs, mediaUrls, i, containerIds, carouselContainerId, retryCount,
                    delayMs, calls, trace, platformNext, platformObjects >>

\* if (!accessToken || !igBusinessId) throw
CheckCredentials ==
    /\ pc = "credentials"
    /\ IF CredentialsMissing(accessToken, igBusinessId)
       THEN Throw(CredentialsError)
       ELSE pc' = "validate" /\ UNCHANGED outcome
    /\ UNCHANGED << server, renderer, inputs, mediaUrls, i, containerIds, carouselContainerId, retryCount,
                    delayMs, calls, trace, platformNext, platformObjects >>

\* if (!mediaUrls || mediaUrls.length === 0) throw; then the truncation to 10
ValidateMediaUrls ==
    /\ pc = "validate"
    /\ IF NoMediaUrls(mediaUrls)
       THEN Throw(NoMediaError) /\ UNCHANGED mediaUrls
       ELSE /\ mediaUrls' = Truncate(mediaUrls)
            /\ pc' = "loop"
            /\ UNCHANGED outcome
    /\ UNCHANGED << server, renderer, inputs, i, containerIds, carouselContainerId, retryCount, delayMs,
                    calls, trace, platformNext, platformObjects >>

\* the delay is waited for before the first container as well
ContainerLoop_DelayAlways ==
    /\ pc = "loop"
    /\ IF i < Len(mediaUrls)
       THEN pc' = "containerDelay" /\ UNCHANGED outcome
       ELSE IF Len(containerIds) = 0
            THEN Throw(NoContainersError)
            ELSE pc' = "createCarousel" /\ UNCHANGED outcome
    /\ UNCHANGED << server, renderer, inputs, mediaUrls, i, containerIds, carouselContainerId, retryCount,
                    delayMs, calls, trace, platformNext, platformObjects >>

\* the loop does not end: after the last image it spins without progress
ContainerLoop_NoExit ==
    /\ pc = "loop"
    /\ IF i < Len(mediaUrls)
       THEN pc' = (IF i > 0 THEN "containerDelay" ELSE "createContainer")
       ELSE pc' = "loop"
    /\ UNCHANGED << server, renderer, inputs, mediaUrls, i, containerIds, carouselContainerId, retryCount,
                    delayMs, outcome, calls, trace, platformNext, platformObjects >>

\* for (let i = 0; i < mediaUrls.length; i++): the loop test and, after the loop,
\* if (containerIds.length === 0) throw
ContainerLoop ==
    /\ pc = "loop"
    /\ IF i < Len(mediaUrls)
       THEN pc' = (IF i > 0 THEN "containerDelay" ELSE "createContainer") /\ UNCHANGED outcome
       ELSE IF Len(containerIds) = 0
            THEN Throw(NoContainersError)
            ELSE pc' = "createCarousel" /\ UNCHANGED outcome
    /\ UNCHANGED << server, renderer, inputs, mediaUrls, i, containerIds, carouselContainerId, retryCount,
                    delayMs, calls, trace, platformNext, platformObjects >>

\* if (i > 0) await setTimeout(containerDelayMs)
ContainerDelay ==
    /\ pc = "containerDelay"
    /\ trace' = Append(trace, DelayEvent(1, containerDelayMs))
    /\ pc' = "createContainer"
    /\ UNCHANGED << server, renderer, inputs, mediaUrls, i, containerIds, carouselContainerId, retryCount,
                    delayMs, outcome, calls, platformNext, platformObjects >>

\* the phase-1 calls are sent one after the other without awaiting their responses
CreateContainer_FanOut ==
    /\ pc = "createContainer"
    /\ calls' = Append(calls, ItemCall(mediaUrls[i + 1]))
    /\ trace' = Append(trace, CallEvent(1))
    /\ IF i + 1 < Len(mediaUrls)
       THEN i' = i + 1 /\ pc' = "createContainer"
       ELSE i' = i /\ pc' = "containerResponse"
    /\ UNCHANGED << server, renderer, inputs, mediaUrls, containerIds, carouselContainerId, retryCount,
                    delayMs, outcome, platformNext, platformObjects >>

\* axios.post of phase 1 is sent
CreateContainer ==
    /\ pc = "createContainer"
    /\ calls' = Append(calls, ItemCall(mediaUrls[i + 1]))
    /\ trace' = Append(trace, CallEvent(1))
    /\ pc' = "containerResponse"
    /\ UNCHANGED << server, renderer, inputs, mediaUrls, i, containerIds, carouselContainerId, retryCount,
                    delayMs, outcome, platformNext, platformObjects >>

\* the catch of phase 1 logs the error and goes on with the next image
ContainerFailed_Swallow(resp) ==
    /\ i' = i + 1
    /\ pc' = "loop"
    /\ UNCHANGED << outcome, containerIds >>

\* the catch of phase 1: throw new Error(`Failed to create container ${i+1}: ...`)
ContainerFailed(resp) ==
    /\ Throw(ContainerError(i, IF resp.ok THEN MissingContainerError(mediaUrls[i + 1]) ELSE resp))
    /\ UNCHANGED << i, containerIds >>

\* the await of phase 1 resolves or rejects
ContainerResponse ==
    /\ pc = "containerResponse"
    /\ \E resp \in Responses(platformNext) :
          /\ trace' = Append(trace, ResponseEvent(1, resp))
          /\ platformObjects' = PlatformAfter(calls[Len(calls)], resp)
          /\ platformNext' = NextIdAfter(resp)
          /\ IF resp.ok /\ ~MissingId(resp)
             THEN /\ containerIds' = Push(containerIds, resp.id)
                  /\ i' = i + 1
                  /\ pc' = "loop"
                  /\ UNCHANGED outcome
             ELSE ContainerFailed(resp)
    /\ UNCHANGED << server, renderer, inputs, mediaUrls, carouselContainerId, retryCount, delayMs, calls >>

\* axios.post of phase 2 is sent
CreateCarousel ==
    /\ pc = "createCarousel"
    /\ calls' = Append(calls, CarouselCall)
    /\ trace' = Append(trace, CallEvent(2))
    /\ pc' = "carouselResponse"
    /\ UNCHANGED << server, renderer, inputs, mediaUrls, i, containerIds, carouselContainerId, retryCount,
                    delayMs, outcome, platformNext, platformObjects >>

\* the catch of phase 2 logs the error and goes on to publish
CarouselFailed_Swallow(resp) ==
    /\ pc' = "carouselDelay"
    /\ UNCHANGED << outcome, carouselContainerId >>

\* the catch of phase 2: throw new Error(`Failed to create carousel container: ...`)
CarouselFailed(resp) ==
    /\ Throw(CarouselError(IF resp.ok THEN MissingCarouselError ELSE resp))
    /\ UNCHANGED carouselContainerId

\* the await of phase 2 resolves or rejects
CarouselResponse ==
    /\ pc = "carouselResponse"
    /\ \E resp \in Responses(platformNext) :
          /\ trace' = Append(trace, ResponseEvent(2, resp))
          /\ platformObjects' = PlatformAfter(calls[Len(calls)], resp)
          /\ platformNext' = NextIdAfter(resp)
          /\ IF resp.ok /\ ~MissingId(resp)
             THEN /\ carouselContainerId' = resp.id
                  /\ pc' = "carouselDelay"
                  /\ UNCHANGED outcome
             ELSE CarouselFailed(resp)
    /\ UNCHANGED << server, renderer, inputs, mediaUrls, i, containerIds, retryCount, delayMs, calls >>

\* await setTimeout(carouselDelayMs), then attemptPublish() with its defaults
CarouselDelay ==
    /\ pc = "carouselDelay"
    /\ trace' = Append(trace, DelayEvent(2, carouselDelayMs))
    /\ retryCount' = 0
    /\ delayMs' = initialDelayMs
    /\ pc' = "publishDelay"
    /\ UNCHANGED << server, renderer, inputs, mediaUrls, i, containerIds, carouselContainerId, outcome,
                    calls, platformNext, platformObjects >>

\* the delay is waited for before retries only
PublishDelay_OnlyRetries ==
    /\ pc = "publishDelay"
    /\ trace' = IF retryCount > 0 THEN Append(trace, DelayEvent(3, delayMs)) ELSE trace
    /\ pc' = "publish"
    /\ UNCHANGED << server, renderer, inputs, mediaUrls, i, containerIds, carouselContainerId, retryCount,
                    delayMs, outcome, calls, platformNext, platformObjects >>

\* attemptPublish: await setTimeout(delayMs)
PublishDelay ==
    /\ pc = "publishDelay"
    /\ trace' = Append(trace, DelayEvent(3, delayMs))
    /\ pc' = "publish"
    /\ UNCHANGED << server, renderer, inputs, mediaUrls, i, containerIds, carouselContainerId, retryCount,
                    delayMs, outcome, calls, platformNext, platformObjects >>

\* attemptPublish: axios.post of phase 3 is sent
Publish ==
    /\ pc = "publish"
    /\ calls' = Append(calls, PublishCall)
    /\ trace' = Append(trace, CallEvent(3))
    /\ pc' = "publishResponse"
    /\ UNCHANGED << server, renderer, inputs, mediaUrls, i, containerIds, carouselContainerId, retryCount,
                    delayMs, outcome, platformNext, platformObjects >>

\* attemptPublish: the await of phase 3 resolves or rejects; on success the run returns
PublishResponse ==
    /\ pc = "publishResponse"
    /\ \E resp \in Responses(platformNext) :
          /\ trace' = Append(trace, ResponseEvent(3, resp))
          /\ platformObjects' = PlatformAfter(calls[Len(calls)], resp)
          /\ platformNext' = NextIdAfter(resp)
          /\ IF resp.ok
             THEN Return(DataId(resp)) /\ UNCHANGED << retryCount, delayMs >>
             ELSE IF ShouldRetry(retryCount, resp)
                  THEN /\ retryCount' = retryCount + 1
                       /\ delayMs' = NextDelay(delayMs)
                       /\ pc' = "publishDelay"
                       /\ UNCHANGED outcome
                  ELSE Throw(PublishError(resp)) /\ UNCHANGED << retryCount, delayMs >>
    /\ UNCHANGED << server, renderer, inputs, mediaUrls, i, containerIds, carouselContainerId, calls >>

Next ==
    \/ CheckCredentials
    \/ ValidateMediaUrls
    \/ ContainerLoop
    \/ ContainerDelay
    \/ CreateContainer
    \/ ContainerResponse
    \/ CreateCarousel
    \/ CarouselResponse
    \/ CarouselDelay
    \/ PublishDelay
    \/ Publish
    \/ PublishResponse

Spec == Init /\ [][Next]_vars

-----------------------------------------------------------------------------
(* Observations of a run, for the properties below *)

\* the sequence x, x, ..., x of length n
Repeat(x, n) == [k \in 1..n |-> x]

\* the phases of the calls sent so far, in order
PhaseSeq == [k \in 1..Len(calls) |-> calls[k].phase]

\* the calls of one phase, in order
CallsOfPhase(p) == SelectSeq(calls, LAMBDA c : c.phase = p)

\* the image URLs of the phase-1 calls, in order
ItemUrls == [k \in 1..Len(CallsOfPhase(1)) |-> CallsOfPhase(1)[k].image_url]

\* the responses of one phase, in order
ResponsesOfPhase(p) ==
    LET evs == SelectSeq(trace, LAMBDA e : e.type = "response" /\ e.phase = p)
    IN  [k \in 1..Len(evs) |-> evs[k].resp]

\* the positions in the trace of the calls of one phase, in order
CallPositions(p) ==
    SelectSeq([k \in 1..Len(trace) |-> k],
              LAMBDA k : trace[k].type = "call" /\ trace[k].phase = p)

\* a response that phases 1 and 2 treat as a failure: an error, or a body without id
FailedResponse(resp) == ~resp.ok \/ ~resp.hasData \/ resp.id \in {Undefined, ""}

\* a call of phase p has failed
PhaseFailed(p) ==
    \E k \in 1..Len(ResponsesOfPhase(p)) : FailedResponse(ResponsesOfPhase(p)[k])

\* both credentials are set
CredentialsPresent ==
    /\ accessToken \notin {Undefined, ""}
    /\ igBusinessId \notin {Undefined, ""}

\* the number of image URLs that can go into the carousel
UsedCount == IF Len(mediaUrlsArg) > 10 THEN 10 ELSE Len(mediaUrlsArg)

\* the first UsedCount image URLs passed by the caller
UsedUrls == SubSeq(mediaUrlsArg, 1, UsedCount)

\* s is a prefix of t
IsPrefix(s, t) == Len(s) <= Len(t) /\ s = SubSeq(t, 1, Len(s))

\* the message the platform's error carries: its own text if it sent one, else the
\* transport's
PlatformText(resp) ==
    IF resp.hasApiMessage /\ Len(resp.apiMessage) > 0 THEN resp.apiMessage ELSE resp.message

\* the response is an error whose text is of the transient class
TransientFailure(resp) ==
    /\ ~resp.ok
    /\ \/ Includes(resp.apiMessage, << "unknown", "error" >>)
       \/ Includes(resp.message, << "unknown", "error" >>)

-----------------------------------------------------------------------------
(* Phase order *)

\* C1: a run with 1 to 10 image URLs and both credentials sends its calls in the order
\* phase 1, phase 2, phase 3, never more than n, 1 and 4 of them; when it has ended
\* without a failed phase-1 or phase-2 call, it has sent exactly n phase-1 calls, then
\* exactly 1 phase-2 call, then between 1 and 4 phase-3 calls.
C1_PhaseOrder ==
    (CredentialsPresent /\ Len(mediaUrlsArg) \in 1..10) =>
        LET n == Len(mediaUrlsArg) IN
        /\ \E a \in 0..n, b \in 0..1, c \in 0..4 :
              /\ PhaseSeq = Repeat(1, a) \o Repeat(2, b) \o Repeat(3, c)
              /\ b = 1 => a = n
              /\ c > 0 => b = 1
        /\ (pc = "done" /\ ~PhaseFailed(1) /\ ~PhaseFailed(2)) =>
              \E c \in 1..4 : PhaseSeq = Repeat(1, n) \o << 2 >> \o Repeat(3, c)

\* a run of 10 images that ended after 4 publish attempts
C1_Witness ==
    /\ pc = "done"
    /\ Len(mediaUrlsArg) = 10
    /\ ~PhaseFailed(1) /\ ~PhaseFailed(2)
    /\ Len(CallsOfPhase(3)) = 4

-----------------------------------------------------------------------------
(* The result *)

\* C2: a result with success = true carries a post id (defined and not empty).
C2_SuccessHasPostId ==
    (outcome.kind = "return" /\ outcome.success) => outcome.postId \notin {Undefined, ""}

-----------------------------------------------------------------------------
(* Preconditions *)

\* C3: with more than 10 image URLs the phase-1 calls are for the first 10 URLs, in
\* order, and no others; no call of another phase carries an image URL; the run throws
\* only when a call has failed, and returns only after all 10 calls.
C3_TruncatedToFirstTen ==
    (CredentialsPresent /\ Len(mediaUrlsArg) > 10) =>
        /\ IsPrefix(ItemUrls, SubSeq(mediaUrlsArg, 1, 10))
        /\ \A k \in 1..Len(calls) :
              /\ calls[k].phase # 1 => calls[k].image_url = 0
              /\ calls[k].phase = 1 =>
                    \A j \in 11..Len(mediaUrlsArg) : calls[k].image_url # mediaUrlsArg[j]
        /\ (pc = "done" /\ outcome.kind = "throw") =>
              \E p \in 1..3 : \E k \in 1..Len(ResponsesOfPhase(p)) :
                 IF p = 3 THEN ~ResponsesOfPhase(p)[k].ok
                 ELSE FailedResponse(ResponsesOfPhase(p)[k])
        /\ (pc = "done" /\ outcome.kind = "return") =>
              ItemUrls = SubSeq(mediaUrlsArg, 1, 10)

\* a run with 12 image URLs that returned
C3_Witness ==
    /\ pc = "done"
    /\ Len(mediaUrlsArg) = 12
    /\ outcome.kind = "return"
    /\ Len(CallsOfPhase(1)) = 10

\* C4: when the access token or the account id is absent (or empty), the run throws the
\* configuration error and sends no call and waits for no delay.
C4_MissingCredentials ==
    ~CredentialsPresent =>
        /\ calls = << >>
        /\ trace = << >>
        /\ pc \in {"credentials", "done"}
        /\ pc = "done" =>
              /\ outcome.kind = "throw"
              /\ outcome.message =
                    << "Missing", "Instagram", "credentials", "in", "environment", "variables" >>

\* a run that ended with the token absent, the account id set and images given
C4_Witness ==
    /\ pc = "done"
    /\ accessToken = Undefined
    /\ igBusinessId \notin {Undefined, ""}
    /\ Len(mediaUrlsArg) > 0

\* C5: with both credentials and an empty image list, the run throws the validation
\* error and sends no call and waits for no delay.
C5_EmptyMediaUrls ==
    (CredentialsPresent /\ Len(mediaUrlsArg) = 0) =>
        /\ calls = << >>
        /\ trace = << >>
        /\ pc \in {"credentials", "validate", "done"}
        /\ pc = "done" =>
              /\ outcome.kind = "throw"
              /\ outcome.message =
                    << "No", "media", "URLs", "provided", "for", "Instagram", "post" >>

\* a run that ended with credentials and no image
C5_Witness ==
    /\ pc = "done"
    /\ CredentialsPresent
    /\ Len(mediaUrlsArg) = 0
    /\ outcome.kind = "throw"

-----------------------------------------------------------------------------
(* Phase 1 and phase 2 *)

\* the ids in a comma-joined list: the tokens at the odd positions
SplitIds(children) == [k \in 1..((Len(children) + 1) \div 2) |-> children[2 * k - 1]]

\* the last event of the trace is the k-th response of phase p
LastEventIsResponse(p, k) ==
    /\ Len(trace) > 0
    /\ trace[Len(trace)].type = "response"
    /\ trace[Len(trace)].phase = p
    /\ Len(ResponsesOfPhase(p)) = k

\* C6: when the phase-1 call for image k fails (an error, or a response without id), the
\* run ends at once by throwing an error that names index k: no call and no delay
\* follows the failed response, so no phase-2 or phase-3 call is made; and every phase-2
\* call carries one child for each of the (truncated) input images, never fewer.
C6_ContainerFailureStopsRun ==
    /\ \A k \in 1..Len(ResponsesOfPhase(1)) :
          FailedResponse(ResponsesOfPhase(1)[k]) =>
             /\ LastEventIsResponse(1, k)
             /\ Len(CallsOfPhase(1)) = k
             /\ CallsOfPhase(2) = << >>
             /\ CallsOfPhase(3) = << >>
             /\ pc = "done"
             /\ outcome.kind = "throw"
             /\ IsPrefix(<< "Failed", "to", "create", "container", ToString(k), ":" >>,
                         outcome.message)
    /\ \A k \in 1..Len(CallsOfPhase(2)) :
          Len(SplitIds(CallsOfPhase(2)[k].children)) = UsedCount

\* a run of 5 images whose third phase-1 call failed
C6_Witness ==
    /\ pc = "done"
    /\ Len(mediaUrlsArg) = 5
    /\ Len(ResponsesOfPhase(1)) = 3
    /\ FailedResponse(ResponsesOfPhase(1)[3])

\* C7: the children of a phase-2 call are the comma-joined ids that the phase-1 calls
\* returned, in the order of the (truncated) input list: the k-th child is the id
\* returned by the k-th phase-1 call, which was sent for the k-th input URL.
C7_ChildrenAreContainerIdsInOrder ==
    \A c \in 1..Len(CallsOfPhase(2)) :
       LET children == CallsOfPhase(2)[c].children
           ids == SplitIds(children)
       IN  /\ Len(children) = 2 * UsedCount - 1
           /\ \A k \in 1..Len(children) : (k % 2 = 0) => children[k] = ","
           /\ Len(ids) = UsedCount
           /\ Len(ResponsesOfPhase(1)) = UsedCount
           /\ ItemUrls = UsedUrls
           /\ \A k \in 1..UsedCount :
                 /\ ids[k] = ResponsesOfPhase(1)[k].id
                 /\ platformObjects[k].id = ids[k]
                 /\ platformObjects[k].image_url = mediaUrlsArg[k]

\* a phase-2 call was sent for 3 images given in descending order
C7_Witness ==
    /\ Len(CallsOfPhase(2)) = 1
    /\ mediaUrlsArg = << 3, 2, 1 >>
    /\ Len(SplitIds(CallsOfPhase(2)[1].children)) = 3

-----------------------------------------------------------------------------
(* Phase 3 *)

\* the delay waited for immediately before the k-th phase-3 call
DelayBeforePublish(k) == trace[CallPositions(3)[k] - 1]

\* the message of the error thrown after phase 3 failed with resp
PublishFailureMessage(resp) ==
    << "Failed", "to", "publish", "carousel", "after", "multiple", "attempts:" >>
    \o PlatformText(resp)

\* C8: when the phase-3 call fails with an 'unknown error' message on attempts 1, 2 and
\* 3 and succeeds on attempt 4, the run returns success, exactly 4 phase-3 calls were
\* made, and each was preceded by a delay longer than the delay before the previous one.
C8_SucceedsOnFourthAttempt ==
    LET R == ResponsesOfPhase(3) IN
    (/\ Len(R) >= 4
     /\ \A k \in 1..3 : TransientFailure(R[k])
     /\ R[4].ok) =>
        /\ pc = "done"
        /\ outcome.kind = "return"
        /\ outcome.success
        /\ Len(CallsOfPhase(3)) = 4
        /\ \A k \in 1..4 : DelayBeforePublish(k).type = "delay"
        /\ \A k \in 1..3 : DelayBeforePublish(k).ms < DelayBeforePublish(k + 1).ms

\* a run that returned after three transient failures of phase 3
C8_Witness ==
    /\ pc = "done"
    /\ outcome.kind = "return"
    /\ Len(ResponsesOfPhase(3)) = 4
    /\ \A k \in 1..3 : TransientFailure(ResponsesOfPhase(3)[k])

\* C9 as stated: when a phase-3 call fails with a message that is not of the transient
\* class, exactly 1 phase-3 call is made in the run.
C9_ExactlyOnePublishCall ==
    (\E k \in 1..Len(ResponsesOfPhase(3)) :
        ~ResponsesOfPhase(3)[k].ok /\ ~TransientFailure(ResponsesOfPhase(3)[k]))
    => Len(CallsOfPhase(3)) = 1

\* C9 (amended): when a phase-3 call fails with a message that is not of the transient
\* class, no further phase-3 call is made: the run ends at once by throwing the publish
\* error with that failure's text, whatever the remaining retry budget; when the failed
\* call is the first attempt, exactly 1 phase-3 call is made.
C9_NonTransientFailureEndsRun ==
    LET R == ResponsesOfPhase(3) IN
    \A k \in 1..Len(R) :
       (~R[k].ok /\ ~TransientFailure(R[k])) =>
          /\ LastEventIsResponse(3, k)
          /\ Len(CallsOfPhase(3)) = k
          /\ pc = "done"
          /\ outcome.kind = "throw"
          /\ outcome.message = PublishFailureMessage(R[k])

\* a run ended by a non-transient failure of the first phase-3 call
C9_Witness ==
    /\ pc = "done"
    /\ Len(ResponsesOfPhase(3)) = 1
    /\ ~ResponsesOfPhase(3)[1].ok
    /\ ~TransientFailure(ResponsesOfPhase(3)[1])
    /\ Len(CallsOfPhase(3)) = 1

\* C10: at most 4 phase-3 calls are made in a run; when all 4 fail with transient
\* errors the run throws, and the error thrown carries the text of the 4th failure.
C10_RetriesBoundedLastErrorSurfaces ==
    LET R == ResponsesOfPhase(3) IN
    /\ Len(CallsOfPhase(3)) <= 4
    /\ (Len(R) = 4 /\ \A k \in 1..4 : TransientFailure(R[k])) =>
          /\ pc = "done"
          /\ outcome.kind = "throw"
          /\ outcome.message = PublishFailureMessage(R[4])

\* a run whose 4 phase-3 calls failed with transient errors, the last with a text other
\* than the first three
C10_Witness ==
    LET R == ResponsesOfPhase(3) IN
    /\ pc = "done"
    /\ Len(R) = 4
    /\ \A k \in 1..4 : TransientFailure(R[k])
    /\ \A k \in 1..3 : PlatformText(R[k]) # PlatformText(R[4])

-----------------------------------------------------------------------------
(* The result and the use of the ids *)

\* the id a 2xx response carries, if any
ReturnedId(resp) == IF resp.ok /\ resp.hasData THEN resp.id ELSE Undefined

\* C11: when the run returns, the result has success = true, its containerIds are the
\* ids of the phase-1 responses in order (one per truncated input URL), its
\* carouselContainerId is the id of the phase-2 response and its postId is the id of the
\* phase-3 response that succeeded (the last one).
C11_ResultCarriesReturnedIds ==
    (pc = "done" /\ outcome.kind = "return") =>
        LET R1 == ResponsesOfPhase(1)
            R2 == ResponsesOfPhase(2)
            R3 == ResponsesOfPhase(3)
        IN  /\ outcome.success
            /\ Len(outcome.containerIds) = UsedCount
            /\ Len(R1) = UsedCount
            /\ \A k \in 1..UsedCount : outcome.containerIds[k] = ReturnedId(R1[k])
            /\ Len(R2) = 1
            /\ outcome.carouselContainerId = ReturnedId(R2[1])
            /\ Len(R3) >= 1
            /\ R3[Len(R3)].ok
            /\ outcome.postId = ReturnedId(R3[Len(R3)])

\* a run of 3 images that returned a post id
C11_Witness ==
    /\ pc = "done"
    /\ outcome.kind = "return"
    /\ Len(mediaUrlsArg) = 3
    /\ Len(outcome.containerIds) = 3
    /\ outcome.postId \notin {Undefined, ""}

\* the number of times id occurs among the children of the phase-2 calls
ChildOccurrences(id) ==
    Cardinality({ << c, k >> \in (1..Len(CallsOfPhase(2))) \X (1..UsedCount) :
                    /\ k <= Len(SplitIds(CallsOfPhase(2)[c].children))
                    /\ SplitIds(CallsOfPhase(2)[c].children)[k] = id })

\* C12: a run sends at most one phase-2 call; once it is sent, every id returned by a
\* phase-1 call occurs exactly once among its children; and the creation_id of every
\* phase-3 call is the id returned by the phase-2 call, never an item container's id.
C12_ContainerIdsUsedOnce ==
    /\ Len(CallsOfPhase(2)) <= 1
    /\ Len(CallsOfPhase(2)) = 1 =>
          \A k \in 1..Len(ResponsesOfPhase(1)) :
             ChildOccurrences(ResponsesOfPhase(1)[k].id) = 1
    /\ \A c \in 1..Len(CallsOfPhase(3)) :
          /\ Len(ResponsesOfPhase(2)) = 1
          /\ CallsOfPhase(3)[c].creation_id = ReturnedId(ResponsesOfPhase(2)[1])
          /\ \A k \in 1..Len(ResponsesOfPhase(1)) :
                CallsOfPhase(3)[c].creation_id # ResponsesOfPhase(1)[k].id

\* a run of 2 images that sent two phase-3 calls
C12_Witness ==
    /\ Len(mediaUrlsArg) = 2
    /\ Len(CallsOfPhase(2)) = 1
    /\ Len(CallsOfPhase(3)) = 2

-----------------------------------------------------------------------------
(* Phase 2 *)

\* C13: a failed phase-2 call (an error, or a response without id) ends the run: it is
\* the only phase-2 call and the last event of the run, no phase-3 call is made, and the
\* run throws the carousel error.
C13_CarouselFailureIsTerminal ==
    \A k \in 1..Len(ResponsesOfPhase(2)) :
       FailedResponse(ResponsesOfPhase(2)[k]) =>
          /\ k = 1
          /\ LastEventIsResponse(2, 1)
          /\ Len(CallsOfPhase(2)) = 1
          /\ CallsOfPhase(3) = << >>
          /\ pc = "done"
          /\ outcome.kind = "throw"
          /\ IsPrefix(<< "Failed", "to", "create", "carousel", "container:" >>,
                      outcome.message)

\* a run ended by a transient-looking failure of the phase-2 call
C13_Witness ==
    /\ pc = "done"
    /\ Len(ResponsesOfPhase(2)) = 1
    /\ TransientFailure(ResponsesOfPhase(2)[1])

\* C14 as stated: the caption of the phase-2 call is the enhanced caption whenever one
\* is provided, the empty string included, and the plain caption otherwise.
C14_EnhancedCaptionWheneverProvided ==
    \A c \in 1..Len(CallsOfPhase(2)) :
       CallsOfPhase(2)[c].caption =
          (IF enhancedCaption # Undefined THEN enhancedCaption ELSE caption)

\* C14 (amended): the caption of the phase-2 call is the enhanced caption whenever a
\* non-empty one is provided, and the plain caption when the enhanced caption is absent
\* or empty; no phase-1 call (and no phase-3 call) carries a caption.
C14_EnhancedCaptionWhenNonEmpty ==
    /\ \A c \in 1..Len(CallsOfPhase(2)) :
          CallsOfPhase(2)[c].caption =
             (IF enhancedCaption \notin {Undefined, ""} THEN enhancedCaption ELSE caption)
    /\ \A c \in 1..Len(calls) : calls[c].phase # 2 => calls[c].caption = Undefined

\* a phase-2 call was sent in a run given the empty string as enhanced caption
C14_Witness ==
    /\ Len(CallsOfPhase(2)) = 1
    /\ enhancedCaption = ""
    /\ CallsOfPhase(2)[1].caption = "Title"

-----------------------------------------------------------------------------
(* Delays *)

\* the positions in the trace of the delays of one phase, in order
DelayPositions(p) ==
    SelectSeq([k \in 1..Len(trace) |-> k],
              LAMBDA k : trace[k].type = "delay" /\ trace[k].phase = p)

\* C15: the first phase-1 call is the first event of the run (no delay before it);
\* between two consecutive phase-1 calls there is the response of the first and then
\* exactly one delay of 1000 ms; every inter-call delay follows a phase-1 response and is
\* followed by the next phase-1 call; a run that has ended after m >= 1 phase-1 calls has
\* waited for exactly m - 1 inter-call delays.
C15_DelayBetweenContainerCalls ==
    LET P == CallPositions(1)
        D == DelayPositions(1)
    IN  /\ Len(P) >= 1 => P[1] = 1
        /\ \A k \in 2..Len(P) :
              /\ P[k] = P[k - 1] + 3
              /\ trace[P[k] - 2].type = "response"
              /\ trace[P[k] - 1].type = "delay"
              /\ trace[P[k] - 1].phase = 1
              /\ trace[P[k] - 1].ms = 1000
        /\ \A k \in 1..Len(D) :
              /\ D[k] > 1
              /\ trace[D[k] - 1].type = "response"
              /\ trace[D[k] - 1].phase = 1
              /\ D[k] < Len(trace) =>
                    trace[D[k] + 1].type = "call" /\ trace[D[k] + 1].phase = 1
        /\ (pc = "done" /\ Len(P) >= 1) => Len(D) = Len(P) - 1

\* a run that ended after 4 phase-1 calls and 3 inter-call delays
C15_Witness ==
    /\ pc = "done"
    /\ Len(CallPositions(1)) = 4
    /\ Len(DelayPositions(1)) = 3

\* C16: every phase-3 call is immediately preceded by a delay; before the first one that
\* delay follows the delay of 2000 ms waited for after the successful phase-2 response,
\* before a retry it follows the failed response of the previous attempt.
C16_DelayBeforeEveryPublish ==
    LET P == CallPositions(3) IN
    \A k \in 1..Len(P) :
       /\ P[k] > 3
       /\ trace[P[k] - 1].type = "delay"
       /\ trace[P[k] - 1].phase = 3
       /\ trace[P[k] - 1].ms > 0
       /\ IF k = 1
          THEN /\ trace[P[k] - 2].type = "delay"
               /\ trace[P[k] - 2].phase = 2
               /\ trace[P[k] - 2].ms = 2000
               /\ trace[P[k] - 3].type = "response"
               /\ trace[P[k] - 3].phase = 2
               /\ ~FailedResponse(trace[P[k] - 3].resp)
          ELSE /\ trace[P[k] - 2].type = "response"
               /\ trace[P[k] - 2].phase = 3
               /\ ~trace[P[k] - 2].resp.ok
               /\ P[k] = P[k - 1] + 3

\* a run that sent its first phase-3 call and a retry
C16_Witness ==
    /\ Len(CallPositions(3)) = 2
    /\ trace[Len(trace)].type = "call"

\* the delays waited for before the phase-3 attempts
PublishDelays == << 5000, 7500, 11250, 16875 >>

\* C17: the delay before phase-3 attempt j is 5000, 7500, 11250, 16875 ms for j = 1..4,
\* each 1.5 times the one before, whatever errors the earlier attempts ended with.
C17_BackoffDelays ==
    LET P == CallPositions(3) IN
    /\ Len(P) <= 4
    /\ \A k \in 1..Len(P) : trace[P[k] - 1].ms = PublishDelays[k]
    /\ \A k \in 2..Len(P) : 2 * trace[P[k] - 1].ms = 3 * trace[P[k - 1] - 1].ms

\* a run with 4 phase-3 attempts whose first two failures have different texts
C17_Witness ==
    /\ Len(CallPositions(3)) = 4
    /\ Len(ResponsesOfPhase(3)) = 4
    /\ PlatformText(ResponsesOfPhase(3)[1]) # PlatformText(ResponsesOfPhase(3)[2])

-----------------------------------------------------------------------------
(* Termination *)

\* the run under the event loop's scheduling: a continuation that is ready (its network
\* call or timer has completed) is eventually run
FairSpec == Spec /\ WF_vars(Next)

\* C18: every run eventually ends, with a result or with a thrown error, provided every
\* network call and every delay completes.
C18_Terminates == <>(pc = "done" /\ outcome.kind \in {"return", "throw"})

\* a run of 10 images that ended by throwing after 4 failed publish attempts
C18_Witness ==
    /\ pc = "done"
    /\ outcome.kind = "throw"
    /\ Len(CallsOfPhase(1)) = 10
    /\ Len(CallsOfPhase(3)) = 4

-----------------------------------------------------------------------------
(* One request at a time *)

\* the number of calls sent and not yet answered
Outstanding ==
    Len(SelectSeq(trace, LAMBDA e : e.type = "call"))
    - Len(SelectSeq(trace, LAMBDA e : e.type = "response"))

\* C19: within a run at most one network request is outstanding: the event after a call
\* is the response to that call, so no call of the same or of a later phase is sent
\* before the response has been received, and every response answers the call just
\* before it.
C19_OneOutstandingRequest ==
    /\ Outstanding \in {0, 1}
    /\ \A j \in 1..Len(trace) :
          /\ (trace[j].type = "call" /\ j < Len(trace)) =>
                /\ trace[j + 1].type = "response"
                /\ trace[j + 1].phase = trace[j].phase
          /\ trace[j].type = "response" =>
                /\ j > 1
                /\ trace[j - 1].type = "call"
                /\ trace[j - 1].phase = trace[j].phase

\* the phase-1 call for the third image is outstanding
C19_Witness ==
    /\ Outstanding = 1
    /\ Len(CallsOfPhase(1)) = 3
    /\ Len(ResponsesOfPhase(1)) = 2
    /\ pc = "containerResponse"

-----------------------------------------------------------------------------
(* Failure paths *)

\* the ids the platform returned to the calls of phase p, in order
CreatedIds(p) ==
    LET R == SelectSeq(ResponsesOfPhase(p), LAMBDA r : ~FailedResponse(r))
    IN  [k \in 1..Len(R) |-> R[k].id]

\* the ids of the objects of phase p that the platform holds, in order
AllocatedIds(p) ==
    LET O == SelectSeq(platformObjects, LAMBDA o : o.phase = p)
    IN  [k \in 1..Len(O) |-> O[k].id]

\* the call is a phase-1 create, a phase-2 create or a phase-3 publish
KnownCallKind(c) ==
    \/ c.phase = 1 /\ c.endpoint = "media" /\ c.is_carousel_item
    \/ c.phase = 2 /\ c.endpoint = "media" /\ c.media_type = "CAROUSEL"
    \/ c.phase = 3 /\ c.endpoint = "media_publish" /\ c.creation_id # Undefined

\* C22: nothing is rolled back.  Every call sent is a phase-1 create, a phase-2 create or
\* a phase-3 publish, and when the run has thrown, every container the platform returned
\* an id for is still allocated: the k-1 item containers after a failure of the k-th
\* phase-1 call, all item containers after a phase-2 failure, and all item containers and
\* the carousel container after a phase-3 failure.
C22_NoRollback ==
    /\ \A k \in 1..Len(calls) : KnownCallKind(calls[k])
    /\ Len(CallPositions(1)) + Len(CallPositions(2)) + Len(CallPositions(3)) = Len(calls)
    /\ (pc = "done" /\ outcome.kind = "throw") =>
          /\ AllocatedIds(1) = CreatedIds(1)
          /\ AllocatedIds(2) = CreatedIds(2)
          /\ PhaseFailed(1) => Len(AllocatedIds(1)) = Len(CallsOfPhase(1)) - 1
          /\ PhaseFailed(2) =>
                Len(AllocatedIds(1)) = UsedCount /\ AllocatedIds(2) = << >>
          /\ Len(CallsOfPhase(3)) > 0 =>
                Len(AllocatedIds(1)) = UsedCount /\ Len(AllocatedIds(2)) = 1

\* a run of 3 images that threw after its publish call failed, with the 3 item
\* containers and the carousel container allocated
C22_Witness ==
    /\ pc = "done"
    /\ outcome.kind = "throw"
    /\ Len(mediaUrlsArg) = 3
    /\ Len(CallsOfPhase(3)) > 0
    /\ Len(AllocatedIds(1)) = 3
    /\ Len(AllocatedIds(2)) = 1

\* C23: every outcome is a success result with a post id or an error.  The error of a
\* failed phase-1 call names the container and its index, the error of a failed phase-2
\* call names the carousel container, the error of a failed publish names the publish;
\* each carries the platform's message when the platform sent one, and the transport's
\* message otherwise.
C23_StructuredOutcome ==
    pc = "done" =>
        /\ outcome.kind \in {"return", "throw"}
        /\ outcome.kind = "return" =>
              outcome.success /\ outcome.postId \notin {Undefined, ""}
        /\ outcome.kind = "throw" =>
              /\ ~outcome.success
              /\ \A k \in 1..Len(ResponsesOfPhase(1)) :
                    LET r == ResponsesOfPhase(1)[k]
                        head == << "Failed", "to", "create", "container", ToString(k), ":" >>
                    IN  /\ FailedResponse(r) => IsPrefix(head, outcome.message)
                        /\ ~r.ok => outcome.message = head \o PlatformText(r)
              /\ \A k \in 1..Len(ResponsesOfPhase(2)) :
                    LET r == ResponsesOfPhase(2)[k]
                        head == << "Failed", "to", "create", "carousel", "container:" >>
                    IN  /\ FailedResponse(r) => IsPrefix(head, outcome.message)
                        /\ ~r.ok => outcome.message = head \o PlatformText(r)
              /\ Len(ResponsesOfPhase(3)) > 0 =>
                    LET R == ResponsesOfPhase(3) IN
                    outcome.message =
                       << "Failed", "to", "publish", "carousel", "after", "multiple",
                          "attempts:" >> \o PlatformText(R[Len(R)])

\* C29: the check for an empty container list after phase 1 never fires.  When the loop
\* has run through the image list, one container id has been collected for every image
\* of the truncated list, which has at least one image; no run ends with the error
\* 'Failed to create any media containers'.
C29_NoContainersCheckUnreachable ==
    /\ (pc = "loop" /\ i >= Len(mediaUrls)) =>
          /\ Len(containerIds) = UsedCount
          /\ Len(containerIds) = Len(mediaUrls)
          /\ Len(containerIds) >= 1
    /\ outcome.message # << "Failed", "to", "create", "any", "media", "containers" >>

\* the loop over the 10 images kept of 12 has ended and the check is next
C29_Witness ==
    /\ pc = "loop"
    /\ Len(mediaUrlsArg) = 12
    /\ i = 10
    /\ Len(containerIds) = 10

-----------------------------------------------------------------------------
(* The triggers: cron callbacks and HTTP handlers, each running the pipeline      *)
(* createCarousel, then postToInstagram, on a server without Cloudinary.  An      *)
(* invocation runs without interruption from one await of I/O to the next; while   *)
(* it waits, other invocations can run.                                            *)

\* the server's time zones: UTC, and US Eastern Standard Time
TimeZones == {0, 0 - 5}

\* the dates of the schedule items: the UTC date of the hour after the first instant
ItemDates == {CurrentDate(FirstInstant + 1)}

\* the times of the schedule items: the hour after the first instant, on the UTC clock
\* and on the clocks of the other time zones
ItemTimes == {<< PadStart2(HourOf(FirstInstant + 1, zone)), "00", "00" >> : zone \in TimeZones}

\* the k-th item of a schedule
ScheduleItem(k, date, time, status) ==
    [id |-> "post-" \o ToString(k), date |-> date, time |-> time, status |-> status,
     content |-> ItemContent("post-" \o ToString(k))]

\* the schedules the store can hold when the server starts: up to MaxItems pending items
Schedules ==
    UNION { { [k \in 1..n |-> ScheduleItem(k, slot[k][1], slot[k][2], "scheduled")] :
                slot \in [1..n -> ItemDates \X ItemTimes] } :
            n \in 0..MaxItems }

TriggerInit ==
    /\ accessToken \in EnvValues("EAAG-token")
    /\ igBusinessId = "17841400000"
    /\ caption = "Title"
    /\ enhancedCaption = Undefined
    /\ mediaUrlsArg = << >>
    /\ mediaUrls = << >>
    /\ pc = "credentials"
    /\ i = 0
    /\ containerIds = << >>
    /\ carouselContainerId = Undefined
    /\ retryCount = 0
    /\ delayMs = initialDelayMs
    /\ outcome = NoOutcome
    /\ calls = << >>
    /\ trace = << >>
    /\ platformNext = 1
    /\ platformObjects = << >>
    /\ jobs = [j \in Jobs |-> IdleJob]
    /\ \E schedule \in Schedules : LoadedStore(schedule)
    /\ clock = FirstInstant
    /\ tz \in TimeZones
    /\ published = << >>
    /\ cronFiredAt = FirstInstant - 1
    /\ postsLog = << >>
    /\ RendererIdle

\* postToInstagram is called by the invocation job: it throws at once without
\* credentials, which ends the invocation as any error does, and otherwise sends its
\* first phase-1 call and awaits the response
BeginPublish(job) ==
    IF CredentialsMissing(accessToken, igBusinessId)
    THEN FinishedJob(job, 500, Undefined)
    ELSE PublishingJob(job, 1)

\* await createCarousel(...) of invocation j, which has come to job: the images are made
\* (Cloudinary is not configured here), and the call settles with the image URLs, and
\* postToInstagram is called, or with an error, which ends the invocation
CreateCarouselSettles(j, job) ==
    /\ CreateCarouselLocally(j, job.postContent.slides)
    /\ jobs' = [jobs EXCEPT ![j] =
                   IF carousels'[j].outcome = "return" THEN BeginPublish(job)
                   ELSE FinishedJob(job, 500, Undefined)]

\* the invocations are numbered in the order in which they start: j is the next one
IsNextJob(j) ==
    /\ jobs[j].pc = "idle"
    /\ \A k \in 1..(j - 1) : jobs[k].pc # "idle"

\* an hour passes
Tick ==
    /\ clock + 1 \in Instants
    /\ clock' = clock + 1
    /\ UNCHANGED << accessToken, igBusinessId, runVars, renderer, disk, jobs, contentSchedule, tz,
                    published, cronFiredAt, postsLog >>

\* a cron callback fires, or /trigger-scheduled or /test-job is requested.
\* scheduledPostJob runs up to the first await of I/O, which is in postToInstagram:
\* getPostContentForToday reads the post of the current hour for its content (or takes
\* the template), and scheduledPostJob reads it again for its id.  Each read takes
\* new Date(); the hour can change between the two.  Then createCarousel makes the
\* images and postToInstagram is called.  No other handler runs in between: the awaits
\* of getPostContentForToday() and createCarousel() are resumed from the microtask queue.
StartScheduledPostJob(j) ==
    /\ IsNextJob(j)
    /\ \E t \in CronTriggers \cup JobRoutes, later \in {clock, clock + 1} \cap Instants :
          LET scheduledPost == GetCurrentTimePost(contentSchedule, clock, tz)
              postContent == IF scheduledPost # Null THEN scheduledPost.content
                             ELSE NutritionMythsContent
              currentPost == GetCurrentTimePost(contentSchedule, later, tz)
          IN  /\ t \in CronTriggers => CronDue(t)
              /\ cronFiredAt' = IF t \in CronTriggers THEN clock ELSE cronFiredAt
              /\ clock' = later
              /\ storeCall' = [NoStoreCall EXCEPT !.op = "getCurrentTimePost",
                                                  !.post = currentPost]
              /\ CreateCarouselSettles(j, RenderingJob(t, postContent,
                                                       OptionalId(currentPost)))
    /\ UNCHANGED << accessToken, igBusinessId, runVars, scheduleMeta, scheduleFile, archives,
                    contentSchedule, tz, published, postsLog >>

\* /post-carousel is requested: createCarouselPost answers 400 to an invalid body, and
\* otherwise makes the images with createCarousel and calls postToInstagram
StartCreateCarouselPost(j) ==
    /\ IsNextJob(j)
    /\ \E body \in RequestBodies :
          IF InvalidBody(body)
          THEN /\ jobs' = [jobs EXCEPT ![j] =
                              FinishedJob([IdleJob EXCEPT !.trigger = CarouselRoute,
                                                          !.body = body], 400, Undefined)]
               /\ UNCHANGED renderer
          ELSE CreateCarouselSettles(j, [RenderingJob(CarouselRoute, BodyContent(body),
                                                      Undefined) EXCEPT !.body = body])
    /\ UNCHANGED << accessToken, igBusinessId, runVars, disk, contentSchedule, clock, tz,
                    published, cronFiredAt, postsLog >>

\* the failure path marks the item as well
JobFails_Marks(j) ==
    /\ jobs' = [jobs EXCEPT ![j] = FinishedJob(jobs[j], 500, Undefined)]
    /\ contentSchedule' = MarkPostAsPublished(contentSchedule, jobs[j].postId)
    /\ UNCHANGED << published, disk, postsLog, clock >>

\* postToInstagram throws: scheduledPostJob logs the error and throws it again,
\* createCarouselPost and the routes answer 500, the cron callbacks log it
JobFails(j) ==
    /\ jobs' = [jobs EXCEPT ![j] = FinishedJob(jobs[j], 500, Undefined)]
    /\ UNCHANGED << contentSchedule, published, disk, postsLog, clock >>

\* postToInstagram returns.  scheduledPostJob marks the post postId, if it has one, as
\* published (which saves the schedule when the post is found), appends a line with the
\* time and the title to logs/posts.log (or a part of the line, modelled as a line without
\* title, or nothing: the error is logged only) and returns
\* {success, postContent, result, scheduledPostId: postId || null}; createCarouselPost
\* answers 200.  The save and the log line each take new Date(): the hour can change
\* between the two
JobSucceeds(j) ==
    /\ published' = Append(published, jobs[j].postContent.title)
    /\ IF jobs[j].trigger # CarouselRoute /\ Truthy(jobs[j].postId)
       THEN MarkAndSave(jobs[j].postId)
       ELSE UNCHANGED << contentSchedule, disk >>
    /\ IF jobs[j].trigger = CarouselRoute THEN UNCHANGED << postsLog, clock >>
       ELSE \E later \in {clock, clock + 1} \cap Instants :
               /\ clock' = later
               /\ postsLog' \in
                     {Append(postsLog, [timestamp |-> later,
                                        title |-> jobs[j].postContent.title]),
                      Append(postsLog, [timestamp |-> later, title |-> Undefined]),
                      postsLog}
    /\ jobs' = [jobs EXCEPT ![j] =
                   FinishedJob(jobs[j], 200,
                               IF jobs[j].trigger = CarouselRoute THEN Undefined
                               ELSE OrElse(jobs[j].postId, NullString))]

\* postToInstagram goes from phase 1 to phase 2 and from phase 2 to phase 3
PublishAdvances(j) ==
    /\ jobs[j].pc = "publishing"
    /\ jobs[j].phase < 3
    /\ jobs' = [jobs EXCEPT ![j] = PublishingJob(jobs[j], jobs[j].phase + 1)]
    /\ UNCHANGED << accessToken, igBusinessId, runVars, renderer, disk, contentSchedule, clock, tz,
                    published, cronFiredAt, postsLog >>

\* await postToInstagram settles: it throws in any phase, or returns from phase 3
PostToInstagramSettles(j) ==
    /\ jobs[j].pc = "publishing"
    /\ \/ JobFails(j)
       \/ jobs[j].phase = 3 /\ JobSucceeds(j)
    /\ UNCHANGED << accessToken, igBusinessId, runVars, renderer, tz, cronFiredAt >>

\* the ids markPostAsPublished is called with: those of the items, and one of no item
PostIds == {"post-1", "post-2", "post-9"}

\* the schedules content-schedule.json can hold when the server starts: up to MaxStoreItems
\* pending items, whose ids need not differ
StoreSchedules ==
    UNION { { [k \in 1..n |->
                 [ScheduleItem(k, CurrentDate(FirstInstant + 1), item[k][2], "scheduled")
                     EXCEPT !.id = item[k][1]]] :
                item \in [1..n -> {"post-1", "post-2"} \X ItemTimes] } :
            n \in 0..MaxStoreItems }

\* the week after the first
NextWeek == "2025-06-09"

\* the schedules POST /api/admin/schedule is called with: an empty one for the first week,
\* and one for the next week whose item has the id post-1, is pending, and has a content
\* of its own
NewSchedules ==
    { ContentSchedule(Metadata(FirstWeek, FirstInstant), << >>),
      ContentSchedule(Metadata(NextWeek, FirstInstant),
                      << [ScheduleItem(1, CurrentDate(FirstInstant + 1),
                                       << PadStart2(HourOf(FirstInstant + 1, 0)), "00", "00" >>,
                                       "scheduled")
                            EXCEPT !.content = ItemContent("new post-1")] >>) }

\* contentService.getCurrentTimePost() is called
CallGetCurrentTimePost ==
    /\ storeCall' = [NoStoreCall EXCEPT !.op = "getCurrentTimePost",
                                        !.post = GetCurrentTimePost(contentSchedule, clock, tz)]
    /\ UNCHANGED << accessToken, igBusinessId, runVars, renderer, jobs, contentSchedule, clock,
                    tz, published, cronFiredAt, scheduleMeta, scheduleFile, archives,
                    postsLog >>

\* contentService.markPostAsPublished(postId) is called
CallMarkPostAsPublished ==
    /\ \E postId \in PostIds : MarkAndSave(postId)
    /\ UNCHANGED << accessToken, igBusinessId, runVars, renderer, jobs, clock, tz, published,
                    cronFiredAt, postsLog >>

\* the archive directory after fs.writeFileSync(archivePath, text) for the schedule that
\* is in memory: the file week-<weekStartDate>.json is written, or left cut off, or not
\* opened.  With no schedule in memory nothing is archived
Archived(ended) ==
    LET week == scheduleMeta.weekStartDate
        old == IF \E a \in archives : a.week = week
               THEN (CHOOSE a \in archives : a.week = week).file
               ELSE NoFile
        new == WriteFileSync(old, Written(scheduleMeta, contentSchedule), ended)
    IN  IF contentSchedule = NoSchedule THEN archives
        ELSE {a \in archives : a.week # week}
                \cup (IF new.exists THEN {[week |-> week, file |-> new]} ELSE {})

\* the new schedule is installed before the old one is archived, also when archiving fails
UpdateSchedule_InstallFirst ==
    /\ \E newSchedule \in NewSchedules, archive \in WriteOutcomes, save \in WriteOutcomes :
          /\ contentSchedule' = newSchedule.schedule
          /\ SaveContentSchedule(newSchedule.schedule, newSchedule.metadata, save)
          /\ archives' = Archived(archive)
          /\ storeCall' = [NoStoreCall EXCEPT !.op = "updateSchedule",
                                              !.returned = (contentSchedule = NoSchedule
                                                             \/ archive = "written"),
                                              !.newSchedule = newSchedule]
    /\ UNCHANGED << accessToken, igBusinessId, runVars, renderer, jobs, clock, tz, published,
                    cronFiredAt, postsLog >>

\* POST /api/admin/schedule with a body that has metadata and schedule:
\* contentService.updateSchedule(newSchedule).  The schedule in memory, if there is one,
\* is written to the archive file of its week.  When that throws, false is returned, and
\* the archive file is as the failed write left it; otherwise the new schedule is
\* installed and saved, and true is returned
UpdateSchedule ==
    /\ \E newSchedule \in NewSchedules, archive \in WriteOutcomes, save \in WriteOutcomes :
          /\ archives' = Archived(archive)
          /\ IF contentSchedule = NoSchedule \/ archive = "written"
             THEN /\ contentSchedule' = newSchedule.schedule
                  /\ SaveContentSchedule(newSchedule.schedule, newSchedule.metadata, save)
                  /\ storeCall' = [NoStoreCall EXCEPT !.op = "updateSchedule",
                                                      !.returned = TRUE,
                                                      !.newSchedule = newSchedule]
             ELSE /\ storeCall' = [NoStoreCall EXCEPT !.op = "updateSchedule",
                                                      !.newSchedule = newSchedule]
                  /\ UNCHANGED << contentSchedule, scheduleMeta, scheduleFile >>
    /\ UNCHANGED << accessToken, igBusinessId, runVars, renderer, jobs, clock, tz, published,
                    cronFiredAt, postsLog >>

StoreInit ==
    /\ accessToken = "EAAG-token"
    /\ igBusinessId = "17841400000"
    /\ caption = "Title"
    /\ enhancedCaption = Undefined
    /\ mediaUrlsArg = << >>
    /\ mediaUrls = << >>
    /\ pc = "credentials"
    /\ i = 0
    /\ containerIds = << >>
    /\ carouselContainerId = Undefined
    /\ retryCount = 0
    /\ delayMs = initialDelayMs
    /\ outcome = NoOutcome
    /\ calls = << >>
    /\ trace = << >>
    /\ platformNext = 1
    /\ platformObjects = << >>
    /\ jobs = [j \in Jobs |-> IdleJob]
    /\ \/ clock = FirstInstant /\ \E schedule \in StoreSchedules : LoadedStore(schedule)
       \/ DefaultStore
       \/ clock = FirstInstant /\ UnloadedStore
    /\ tz \in TimeZones
    /\ published = << >>
    /\ cronFiredAt = FirstInstant - 1
    /\ postsLog = << >>
    /\ RendererIdle

StoreNext ==
    \/ Tick
    \/ CallGetCurrentTimePost
    \/ CallMarkPostAsPublished
    \/ UpdateSchedule

StoreSpec == StoreInit /\ [][StoreNext]_vars

TriggerNext ==
    \/ Tick
    \/ \E j \in Jobs :
          \/ StartScheduledPostJob(j)
          \/ StartCreateCarouselPost(j)
          \/ PublishAdvances(j)
          \/ PostToInstagramSettles(j)

TriggerSpec == TriggerInit /\ [][TriggerNext]_vars

\* the triggers together with POST /api/admin/schedule
AdminNext ==
    \/ Tick
    \/ UpdateSchedule
    \/ \E j \in 1..MaxAdminJobs :
          \/ StartScheduledPostJob(j)
          \/ StartCreateCarouselPost(j)
          \/ PublishAdvances(j)
          \/ PostToInstagramSettles(j)

\* the server runs in UTC and has its credentials
AdminInit ==
    /\ TriggerInit
    /\ tz = 0
    /\ accessToken = "EAAG-token"

AdminSpec == AdminInit /\ [][AdminNext]_vars

\* the invocations whose postToInstagram run is in flight
Publishing == {j \in Jobs : jobs[j].pc = "publishing"}

\* C20: at most one postToInstagram run is in flight for the account at any time,
\* whatever triggers fire and however their invocations interleave.
C20_OnePublishAtATime == Cardinality(Publishing) <= 1

-----------------------------------------------------------------------------
(* The schedule store and scheduledPostJob *)

\* the invocations that run scheduledPostJob
ScheduledJobs == {j \in Jobs : jobs[j].trigger \in CronTriggers \cup JobRoutes}

\* the item is pending and its date and hour are those of the instant clock, read on the
\* clock of the time zone of offset zone
DueOn(post, zone) ==
    /\ post.status = "scheduled"
    /\ post.date = IsoDate(DayOf(clock, zone))
    /\ post.time[1] = PadStart2(HourOf(clock, zone))

\* the positions in the store of the items due on the clock of zone
DuePositions(zone) == {k \in 1..Len(contentSchedule) : DueOn(contentSchedule[k], zone)}

\* C26: getCurrentTimePost returns the first item in store order that is pending and
\* whose date and hour are the current date and hour, and none when there is no such
\* item; the current date and hour are those of one clock, the server's or UTC's.
C26_FirstDueItem ==
    \E zone \in {0, tz} :
       LET found == GetCurrentTimePost(contentSchedule, clock, tz)
           due == DuePositions(zone)
       IN  IF due = {} THEN found = Null
           ELSE found = contentSchedule[CHOOSE k \in due : \A m \in due : k <= m]

\* the step of an invocation j that ends it with a result: postToInstagram returned
Succeeds(j) ==
    /\ jobs[j].pc = "publishing"
    /\ jobs'[j].pc = "finished"
    /\ jobs'[j].status \in {0, 200}
    /\ published' = Append(published, jobs[j].postContent.title)

\* C27: the status of an item changes only in the step in which postToInstagram returns
\* to a scheduledPostJob invocation that read the item's id, and only to 'published';
\* a step in which createCarousel or postToInstagram throws changes no status, and the
\* schedule never gains or loses an item.
C27_MarkedOnlyAfterSuccess ==
    [][ /\ Len(contentSchedule') = Len(contentSchedule)
        /\ \A k \in 1..Len(contentSchedule) :
              contentSchedule'[k] # contentSchedule[k] =>
                 /\ contentSchedule'[k] = [contentSchedule[k] EXCEPT !.status = "published"]
                 /\ \E j \in ScheduledJobs :
                       Succeeds(j) /\ jobs[j].postId = contentSchedule[k].id
        /\ published' = published => contentSchedule' = contentSchedule
      ]_vars

\* an invocation read post-1 and failed, the item stayed due, and another invocation
\* read it, published it and marked it
C27_Witness ==
    \E j1 \in ScheduledJobs, j2 \in ScheduledJobs :
       /\ jobs[j1].pc = "finished" /\ jobs[j1].postId = "post-1"
       /\ jobs[j1].scheduledPostId = Undefined
       /\ jobs[j2].pc = "finished" /\ jobs[j2].scheduledPostId = "post-1"
       /\ published = << "Title of post-1" >>
       /\ contentSchedule[1].status = "published"

\* C28: a scheduledPostJob invocation that found no item due when it was triggered, and
\* so took the fallback template, has no item id to mark; when it ends with a result it
\* has published the template and reports scheduledPostId = null.
C28_FallbackLeavesStoreAlone ==
    \A j \in ScheduledJobs :
       jobs[j].postContent = NutritionMythsContent =>
          /\ jobs[j].postId = Undefined
          /\ (jobs[j].pc = "finished" /\ jobs[j].scheduledPostId # Undefined) =>
                /\ jobs[j].scheduledPostId = NullString
                /\ \E n \in 1..Len(published) : published[n] = NutritionMythsContent.title

\* C30: no schedule item's content goes through a successful publish more than once.
C30_PublishedAtMostOnce ==
    \A k \in 1..Len(contentSchedule) :
       Cardinality({n \in 1..Len(published) :
                       published[n] = contentSchedule[k].content.title}) <= 1

-----------------------------------------------------------------------------
(* createCarousel and the uploader *)

\* the images of the URLs, in order
ImagesOf(urls) == [k \in 1..Len(urls) |-> urls[k].file.image]

\* what the uploader did for the k-th image of a createCarousel call, in order
UploadEventsOf(run, k) ==
    LET evs == SelectSeq(run.log, LAMBDA e : e.image = k /\ e.event # "render failed")
    IN  [n \in 1..Len(evs) |-> evs[n].event]

\* a drawing or a store of the call has failed
ImageFailed(run) ==
    \E n \in 1..Len(run.log) : run.log[n].event \in {"render failed", "copy failed"}

\* C24: a createCarousel call that returns, returns slides.length + 2 URLs: the URL of
\* its cover image, then those of its content slides 1..N in input order, then the URL
\* of its CTA image.  A call in which the drawing or the storing of an image failed has
\* ended by throwing, and a call that throws returns no list.
C24_CoverSlidesCta ==
    \A j \in Jobs :
       LET run == carousels[j] IN
       /\ run.outcome = "return" =>
             /\ Len(run.result) = run.slides + 2
             /\ \A k \in 1..Len(run.result) : run.result[k].file.run = j
             /\ ImagesOf(run.result)[1] = "cover"
             /\ \A k \in 1..run.slides :
                   ImagesOf(run.result)[k + 1] = "slide_" \o ToString(k)
             /\ ImagesOf(run.result)[run.slides + 2] = "cta"
       /\ ImageFailed(run) => run.pc = "done" /\ run.outcome = "throw"
       /\ run.outcome # "return" => run.result = << >>

\* one call has returned the 4 URLs of a carousel of 2 content slides, and another has
\* thrown after storing 2 images
C24_Witness ==
    \E j1 \in Jobs, j2 \in Jobs :
       /\ carousels[j1].outcome = "return"
       /\ carousels[j1].slides = 2
       /\ Len(carousels[j1].result) = 4
       /\ carousels[j2].outcome = "throw"
       /\ Len(carousels[j2].imageUrls) = 2

\* C25: for every image, the uploader starts with the Cloudinary upload exactly when
\* Cloudinary is configured; it copies the image locally exactly after a failed upload
\* or when Cloudinary is not configured; the URL it returns is the Cloudinary URL after
\* a successful upload and the local URL after a successful copy; it throws exactly when
\* the local copy fails; and it ends with a URL or with that error.
C25_CloudFirstLocalFallback ==
    \A j \in Jobs :
       LET run == carousels[j] IN
       \A k \in 1..(run.slides + 2) :
          LET ev == UploadEventsOf(run, k)
          IN  /\ ev \in IF useCloudinary
                       THEN { << >>, << "upload" >>, << "upload", "uploaded" >>,
                              << "upload", "upload failed" >>,
                              << "upload", "upload failed", "copied" >>,
                              << "upload", "upload failed", "copy failed" >> }
                       ELSE { << >>, << "copied" >>, << "copy failed" >> }
              /\ (Len(ev) > 0 /\ ev[Len(ev)] = "uploaded") <=>
                    (Len(run.imageUrls) >= k /\ run.imageUrls[k].host = "res.cloudinary.com")
              /\ (Len(ev) > 0 /\ ev[Len(ev)] = "copied") <=>
                    (Len(run.imageUrls) >= k /\ run.imageUrls[k].host = "APP_BASE_URL")
              /\ (Len(ev) > 0 /\ ev[Len(ev)] = "copy failed") =>
                    /\ run.outcome = "throw"
                    /\ Len(run.imageUrls) = k - 1
              /\ (Len(ev) > 0 /\ ev[Len(ev)] \in {"upload", "upload failed"}) =>
                    /\ run.pc \in {"uploading", "local"}
                    /\ run.image = k
              /\ run.outcome = "throw" /\ run.image = k =>
                    \/ ev = << >> /\ ImageFailed(run)
                    \/ Len(ev) > 0 /\ ev[Len(ev)] = "copy failed"

\* with Cloudinary configured, a call has stored its cover on Cloudinary and its first
\* slide locally after a failed upload, and the local copy of its CTA image has failed
C25_Witness ==
    \E j \in Jobs :
       /\ useCloudinary
       /\ carousels[j].slides = 1
       /\ UploadEventsOf(carousels[j], 1) = << "upload", "uploaded" >>
       /\ UploadEventsOf(carousels[j], 2) = << "upload", "upload failed", "copied" >>
       /\ UploadEventsOf(carousels[j], 3) = << "upload", "upload failed", "copy failed" >>
       /\ carousels[j].outcome = "throw"

-----------------------------------------------------------------------------
(* The pipeline: createCarousel, then postToInstagram with the URLs it returned *)

\* what createCarousel returns for n content slides when image k is stored on hosts[k]
CreateCarouselResult(n, hosts) == StoredUrls(1, n, hosts, n + 2)

\* where the images of a call for n content slides can be: any image on either host, up
\* to MaxOtherHost of them on the host that stores fewer
HostLists(n) ==
    {hosts \in [1..(n + 2) -> Hosts] :
        \E host \in Hosts :
           Cardinality({k \in 1..(n + 2) : hosts[k] = host}) <= MaxOtherHost}

\* what the createCarousel call that returned CreateCarouselResult(n, hosts) has left.
\* Cloudinary is configured when an image is there, and may be when none is (every upload
\* failed); the images that were copied are in public/uploads; the temp directory is as
\* the cleanup left it
CreateCarouselReturned(n, hosts) ==
    /\ useCloudinary \in IF hosts = Local(n + 2) THEN BOOLEAN ELSE {TRUE}
    /\ carousels = [j \in Jobs |-> IF j = 1 THEN ReturnedCarousel(1, n, hosts, useCloudinary)
                                   ELSE IdleCarousel]
    /\ publicFiles = {TempFile(1, ImageNames(n)[k]) :
                         k \in {x \in 1..(n + 2) : hosts[x] = "APP_BASE_URL"}}
    /\ tempFiles \in CleanupTempFiles(ImageFiles(1, n, n + 2))
    /\ nodeEnv = "production"

\* scheduledPostJob and createCarouselPost: carouselUrls = await createCarousel(title,
\* slides, cta), then postToInstagram(title, carouselUrls, ...)
PipelineInit ==
    /\ accessToken \in EnvValues("EAAG-token")
    /\ igBusinessId = "17841400000"
    /\ caption = "Title"
    /\ enhancedCaption \in {Undefined, "Enhanced caption"}
    /\ \E n \in 0..MaxPipelineSlides :
          \E hosts \in HostLists(n) :
             /\ mediaUrlsArg = CreateCarouselResult(n, hosts)
             /\ CreateCarouselReturned(n, hosts)
    /\ mediaUrls = mediaUrlsArg
    /\ pc = "credentials"
    /\ i = 0
    /\ containerIds = << >>
    /\ carouselContainerId = Undefined
    /\ retryCount = 0
    /\ delayMs = initialDelayMs
    /\ outcome = NoOutcome
    /\ calls = << >>
    /\ trace = << >>
    /\ platformNext = 1
    /\ platformObjects = << >>
    /\ jobs = [j \in Jobs |-> IdleJob]
    /\ LoadedStore(<< >>)
    /\ clock = FirstInstant
    /\ tz = 0
    /\ published = << >>
    /\ cronFiredAt = FirstInstant - 1
    /\ postsLog = << >>

PipelineSpec == PipelineInit /\ [][Next]_vars

\* the image of the item container id, as the platform has it
ImageOfContainer(id) ==
    LET o == CHOOSE o \in {platformObjects[k] : k \in 1..Len(platformObjects)} : o.id = id
    IN  o.image_url.file.image

\* C21: in every pipeline run that sends the phase-2 call, whatever the number of content
\* slides, the first child of the carousel is the container created for the cover image
\* and the last child is the container created for the CTA image.
C21_CoverFirstCtaLast ==
    \A c \in 1..Len(CallsOfPhase(2)) :
       LET ids == SplitIds(CallsOfPhase(2)[c].children)
       IN  /\ ImageOfContainer(ids[1]) = "cover"
           /\ ImageOfContainer(ids[Len(ids)]) = "cta"

-----------------------------------------------------------------------------
(* Responses without an id, and the order of the precondition checks *)

\* a 2xx response that carries no id: no body, or a body whose id is missing or empty
OkWithoutId(resp) == resp.ok /\ (~resp.hasData \/ resp.id \in {Undefined, ""})

\* the positions in the trace of the phase-1 and phase-2 responses that carry no id
IdlessPositions ==
    {k \in 1..Len(trace) : /\ trace[k].type = "response"
                           /\ trace[k].phase \in {1, 2}
                           /\ OkWithoutId(trace[k].resp)}

\* C36: a phase-1 or phase-2 response that is successful but carries no id ends the run
\* as a failed call of that phase does: it is the last thing that happens (no later
\* call, delay or response), the run has thrown that phase's error ('Failed to create
\* container n: ...' or 'Failed to create carousel container: ...'), and no id was taken
\* from the response: the container id list holds the ids of the earlier phase-1
\* responses only, and the carousel container id stays unset.
C36_OkWithoutIdIsFailure ==
    \A k \in IdlessPositions :
       /\ k = Len(trace)
       /\ pc = "done"
       /\ outcome.kind = "throw"
       /\ ~outcome.success
       /\ Len(CallsOfPhase(3)) = 0
       /\ carouselContainerId = Undefined
       /\ trace[k].phase = 1 =>
             /\ Len(CallsOfPhase(2)) = 0
             /\ Len(containerIds) = Len(ResponsesOfPhase(1)) - 1
             /\ outcome.message =
                   << "Failed", "to", "create", "container", Str(Len(containerIds) + 1), ":",
                      "Failed", "to", "create", "media", "container", "for", "URL:",
                      Str(mediaUrls[Len(containerIds) + 1]) >>
       /\ trace[k].phase = 2 =>
             /\ Len(containerIds) = Len(ResponsesOfPhase(1))
             /\ outcome.message =
                   << "Failed", "to", "create", "carousel", "container:",
                      "Failed", "to", "create", "carousel", "container" >>

\* the second phase-1 call was answered 200 with a body that has an empty id
C36_Witness ==
    /\ Len(containerIds) = 1
    /\ Len(ResponsesOfPhase(1)) = 2
    /\ ResponsesOfPhase(1)[2] = OkResponse(TRUE, "")
    /\ Len(trace) \in IdlessPositions

\* C37: the credentials are checked before the image list.  A run without credentials
\* ends with the configuration error, also when the image list is empty; a run with
\* credentials and an empty list ends with the validation error; neither sends a call;
\* and the image list is truncated only in a run that passed both checks.
C37_CredentialsBeforeImageList ==
    /\ (pc = "done" /\ (~Truthy(accessToken) \/ ~Truthy(igBusinessId))) =>
          /\ outcome.kind = "throw"
          /\ outcome.message =
                << "Missing", "Instagram", "credentials", "in", "environment", "variables" >>
          /\ calls = << >>
    /\ (pc = "done" /\ CredentialsPresent /\ Len(mediaUrlsArg) = 0) =>
          /\ outcome.kind = "throw"
          /\ outcome.message =
                << "No", "media", "URLs", "provided", "for", "Instagram", "post" >>
          /\ calls = << >>
    /\ mediaUrls # mediaUrlsArg =>
          /\ CredentialsPresent
          /\ Len(mediaUrlsArg) > 10
          /\ pc \notin {"credentials", "validate"}
          /\ mediaUrls = SubSeq(mediaUrlsArg, 1, 10)
    /\ (pc \in {"credentials", "validate"} \/ ~CredentialsPresent) => mediaUrls = mediaUrlsArg

\* a run with no access token and no images has ended
C37_Witness ==
    /\ pc = "done"
    /\ accessToken = Undefined
    /\ Len(mediaUrlsArg) = 0
    /\ outcome.kind = "throw"

-----------------------------------------------------------------------------
(* The /post-carousel handler *)

\* the invocations that run createCarouselPost
CarouselPostJobs == {j \in Jobs : jobs[j].trigger = CarouselRoute}

\* the body has a title and a non-empty array of slides
TitleAndSlides(body) ==
    /\ body.title \notin {Undefined, ""}
    /\ body.slides.kind = "array"
    /\ body.slides.length >= 1

\* C38: createCarouselPost answers 400 at once, calling neither createCarousel nor
\* postToInstagram, exactly when the body lacks a title or a non-empty slides array.
\* With a valid body it calls createCarousel, and postToInstagram only after createCarousel
\* returned; it answers 200 only in the step in which postToInstagram returns, and 500
\* in the step in which either of them throws; it answers nothing else.
C38_PostCarouselStatus ==
    [][ \A j \in Jobs :
           (jobs'[j] # jobs[j] /\ jobs'[j].trigger = CarouselRoute) =>
              /\ jobs[j].pc = "idle" =>
                    IF TitleAndSlides(jobs'[j].body)
                    THEN /\ carousels'[j].pc = "done"
                         /\ jobs'[j].pc \in {"publishing", "finished"}
                         /\ jobs'[j].pc = "publishing" => carousels'[j].outcome = "return"
                         /\ jobs'[j].pc = "finished" => jobs'[j].status = 500
                    ELSE /\ jobs'[j].pc = "finished" /\ jobs'[j].status = 400
                         /\ carousels'[j] = IdleCarousel
              /\ jobs[j].pc # "idle" => jobs'[j].body = jobs[j].body
              /\ jobs'[j].pc = "publishing" => jobs'[j].status = 0
              /\ jobs'[j].pc = "finished" =>
                    /\ jobs'[j].status \in {200, 400, 500}
                    /\ jobs'[j].status = 400 <=>
                          (jobs[j].pc = "idle" /\ ~TitleAndSlides(jobs'[j].body))
                    /\ jobs'[j].status = 200 =>
                          /\ jobs[j].pc = "publishing" /\ jobs[j].phase = 3
                          /\ carousels[j].outcome = "return"
                          /\ published' = Append(published, jobs[j].body.title)
                    /\ jobs'[j].status = 500 => published' = published
      ]_vars

\* one request with an empty slides array was answered 400, another with a title and a
\* slide was answered 200
C38_Witness ==
    \E j1 \in CarouselPostJobs, j2 \in CarouselPostJobs :
       /\ jobs[j1].pc = "finished" /\ jobs[j1].status = 400
       /\ jobs[j1].body = RequestBody("Title of the request", "array", 0)
       /\ jobs[j2].pc = "finished" /\ jobs[j2].status = 200
       /\ published = << "Title of the request" >>

-----------------------------------------------------------------------------
(* Concurrent createCarousel calls and the temp directory *)

\* the calls that have drawn an image and have not stored it yet
Storing == {j \in Jobs : carousels[j].pc \in {"store", "uploading", "local"}}

\* C32: the file of an image that a createCarousel call has drawn and not yet stored
\* (uploaded or copied) is in the temp directory: no cleanup of another call has
\* removed it.
C32_TempFileKeptUntilStored == \A j \in Storing : CurrentFile(j) \in InTemp

-----------------------------------------------------------------------------
(* The content service: markPostAsPublished, getCurrentTimePost, updateSchedule *)

\* the positions in the store of the items whose id is postId
PositionsOf(postId) == {k \in 1..Len(contentSchedule) : contentSchedule[k].id = postId}

\* the step is a call of markPostAsPublished
MarkStep == storeCall'.op = "markPostAsPublished" /\ clock' = clock

\* C34: a call markPostAsPublished(id) returns true when an item has that id, and then
\* the schedule it leaves differs from the one it found only in the status of the first
\* such item in store order, which is 'published'; the file holds the schedule it left,
\* or, when writing failed, what it held or nothing that can be read.  When no item has
\* the id the call returns false and leaves the schedule, its metadata and the file as
\* they were; and with no schedule loaded it returns false and leaves none loaded.  The
\* archives are never touched.
C34_MarksFirstItemOnly ==
    [][ MarkStep =>
           LET same == PositionsOf(storeCall'.postId) IN
           /\ archives' = archives
           /\ IF same # {}
              THEN LET first == CHOOSE k \in same : \A m \in same : k <= m IN
                   /\ storeCall'.returned
                   /\ contentSchedule' = [contentSchedule EXCEPT ![first].status = "published"]
                   /\ scheduleMeta'.weekStartDate = scheduleMeta.weekStartDate
                   /\ scheduleFile' \in {scheduleFile, Unparsable,
                                        Written(scheduleMeta', contentSchedule')}
              ELSE /\ ~storeCall'.returned
                   /\ UNCHANGED << contentSchedule, scheduleMeta, scheduleFile >>
           /\ ~MarkPostAsPublishedReturns(NoSchedule, storeCall'.postId)
           /\ MarkPostAsPublished(NoSchedule, storeCall'.postId) = NoSchedule
      ]_vars

\* two items have the id post-1; markPostAsPublished('post-1') returned true, the first
\* is published and the second is still pending; the save failed and left the file cut off
C34_Witness ==
    /\ storeCall = BooleanCall("markPostAsPublished", "post-1", TRUE)
    /\ Len(contentSchedule) = 2
    /\ contentSchedule[1].id = "post-1" /\ contentSchedule[1].status = "published"
    /\ contentSchedule[2].id = "post-1" /\ contentSchedule[2].status = "scheduled"
    /\ scheduleFile = Unparsable

\* the step is a call of updateSchedule that installed the new schedule
ReplaceStep == storeCall'.op = "updateSchedule" /\ storeCall'.returned /\ clock' = clock

\* the positions in the store of the published items
PublishedPositions == {k \in 1..Len(contentSchedule) : contentSchedule[k].status = "published"}

\* C33: in a step that does not replace the schedule, the item that a call of
\* markPostAsPublished returning true has found is published afterwards, every published
\* item stays where it is and stays published, and a call of getCurrentTimePost returns
\* none or a pending item of the store, never a published one.
C33_PublishedNeverReturned ==
    [][ ~ReplaceStep =>
           /\ (MarkStep /\ storeCall'.returned) =>
                 \E k \in PositionsOf(storeCall'.postId) :
                    /\ \A m \in PositionsOf(storeCall'.postId) : k <= m
                    /\ contentSchedule'[k].status = "published"
           /\ Len(contentSchedule') = Len(contentSchedule)
           /\ \A k \in PublishedPositions : contentSchedule'[k] = contentSchedule[k]
           /\ (storeCall'.op = "getCurrentTimePost" /\ storeCall'.post # Null) =>
                 /\ storeCall'.post.status = "scheduled"
                 /\ \E k \in 1..Len(contentSchedule') : contentSchedule'[k] = storeCall'.post
                 /\ \A k \in 1..Len(contentSchedule') :
                       contentSchedule'[k].status = "published" =>
                          contentSchedule'[k] # storeCall'.post
      ]_vars

\* the first item was marked published and is the only item of the current date and
\* hour; getCurrentTimePost was called and returned none
C33_Witness ==
    /\ storeCall.op = "getCurrentTimePost"
    /\ storeCall.post = Null
    /\ Len(contentSchedule) >= 1
    /\ contentSchedule[1].status = "published"
    /\ contentSchedule[1].date = CurrentDate(clock)
    /\ PostHour(contentSchedule[1].time) = CurrentHour(clock, tz)
    /\ archives = {}

\* the step is a call of updateSchedule
UpdateStep == storeCall'.op = "updateSchedule" /\ clock' = clock

\* the archive file of the week of the schedule in memory
ArchiveOfWeek(files) == {a \in files : a.week = scheduleMeta.weekStartDate}

\* C35: a call of updateSchedule that returns false leaves the schedule in memory, its
\* metadata and the schedule file as they were, and the archive files too, but for the one
\* of the schedule's week, which the failed write may have left cut off; one that returns
\* true leaves the new schedule in memory, under the new metadata, and the archive file
\* of the previous schedule's week holds the previous schedule as it was.
C35_UpdateScheduleOutcome ==
    [][ UpdateStep =>
           IF storeCall'.returned
           THEN /\ contentSchedule' = storeCall'.newSchedule.schedule
                /\ scheduleMeta'.weekStartDate = storeCall'.newSchedule.metadata.weekStartDate
                /\ [week |-> scheduleMeta.weekStartDate,
                    file |-> Written(scheduleMeta, contentSchedule)] \in archives'
                /\ \A a \in archives' :
                      a.week # scheduleMeta.weekStartDate => a \in archives
           ELSE /\ UNCHANGED << contentSchedule, scheduleMeta, scheduleFile >>
                /\ archives' \ ArchiveOfWeek(archives') = archives \ ArchiveOfWeek(archives)
                /\ \/ ArchiveOfWeek(archives') = ArchiveOfWeek(archives)
                   \/ ArchiveOfWeek(archives') =
                         {[week |-> scheduleMeta.weekStartDate, file |-> Unparsable]}
      ]_vars

\* a schedule of two items was replaced by the schedule of the next week, and is in the
\* archive; a later call returned false: the schedule of the next week is still in
\* memory, and its archive file is cut off
C35_Witness ==
    /\ storeCall.op = "updateSchedule"
    /\ ~storeCall.returned
    /\ scheduleMeta.weekStartDate = NextWeek
    /\ Len(contentSchedule) = 1
    /\ \E a \in archives : a.week = FirstWeek /\ Len(a.file.schedule) = 2
    /\ [week |-> NextWeek, file |-> Unparsable] \in archives

-----------------------------------------------------------------------------
(* The two reads of scheduledPostJob *)

\* C31: every item of the store that is marked published is an item whose content was
\* published: its title is among the titles that postToInstagram runs have published.
C31_MarkedItemWasPublished ==
    \A k \in PublishedPositions :
       \E n \in 1..Len(published) : published[n] = contentSchedule[k].content.title

====
